---- MODULE Spec2Model ----
(***************************************************************************)
(* Story dApp statistics service: the ingestion scheduler, the rate-       *)
(* limited Storyscan client, the hourly aggregation store and the          *)
(* per-application sync, modelled from the TypeScript sources.              *)
(*                                                                         *)
(* The module holds several specifications over one set of variables:      *)
(*   SpecSched   the IngestionScheduler (jobs/scheduler.ts)                 *)
(*   SpecStore   the aggregation primitives (db/queries.ts)                 *)
(*   SpecSync    one application sync (repos/stats.ts + clients/storyscan)  *)
(*   SpecClient  concurrent callers of the shared client                    *)
(* A specification leaves the variables of the other parts at their        *)
(* initial values.                                                          *)
(***************************************************************************)
EXTENDS Integers, Sequences, FiniteSets, TLC

VARIABLES
    \* ---- IngestionScheduler (jobs/scheduler.ts)
    isRunning,      \* private isRunning: the "cycle in progress" guard
    cronJob,        \* cronJob # null
    initialTimers,  \* pending setTimeout(..., 10000) callbacks armed by start()
    runs,           \* every ingestion run begun so far, with its position
    skipped,        \* invocations of runScheduledIngestion that returned at the guard
    dappsTable,     \* slugs with status = 1 in the dapps table
    \* ---- aggregation store (db/queries.ts)
    db,             \* [stats: dapp_stats_hourly rows, users: dapp_hourly_users rows]
    \* ---- one application sync (repos/stats.ts, clients/storyscan.ts)
    sync,           \* ingestDappTransactions: position, address list, result record
    iter,           \* iterateAddressTransactions: generator locals and current page
    req,            \* the HTTP request in progress: retryCount and attempt log
    \* ---- ingestion jobs (jobs/ingest.ts)
    job,            \* executeMultiple / execute: position, current result, results
    \* ---- statistics API (api/routes/dapps.stats.ts, utils)
    api,            \* the last call: the function, its arguments and its result
    \* ---- concurrent callers of the shared client
    callers,        \* per caller: position, retryCount, attempt log
    queue,          \* Bottleneck's FIFO of scheduled jobs not yet started
    lastCall        \* the call that settled last: its attempt log and result

schedVars  == <<isRunning, cronJob, initialTimers, runs, skipped, dappsTable>>
storeVars  == <<db>>
syncVars   == <<sync, iter, req>>
clientVars == <<callers, queue, lastCall>>
jobVars    == <<job>>
apiVars    == <<api>>
nonSchedVars == <<db, sync, iter, req, job, api, callers, queue, lastCall>>
vars       == <<isRunning, cronJob, initialTimers, runs, skipped, dappsTable,
                db, sync, iter, req, job, api, callers, queue, lastCall>>

\* ------------------------------------------------------------------------
\* Bounds of the model
\* ------------------------------------------------------------------------
MaxInvocations == 3      \* calls of runScheduledIngestion / triggerIngestionForDapps
MaxTimers      == 1      \* initial-run timers pending at once

\* ------------------------------------------------------------------------
\* IngestionScheduler
\* ------------------------------------------------------------------------
Slugs == {"x", "y"}

\* ORDER BY priority ASC, id ASC: the table's rows in their fixed order
DbOrder == <<"x", "y">>

DEFAULT_DAPPS == <<"storyhunt", "verio", "piperx">>

\* SELECT slug, title FROM dapps WHERE status = 1 ORDER BY priority, id
ActiveRows(table) == SelectSeq(DbOrder, LAMBDA s : s \in table)

\* fetchActiveDapps: the rows, or the defaults when the query fails or is empty
FetchActiveDapps(queryOk, table) ==
    IF ~queryOk THEN DEFAULT_DAPPS
    ELSE IF Len(ActiveRows(table)) = 0 THEN DEFAULT_DAPPS
    ELSE ActiveRows(table)

Invocations == Len(runs) + skipped

NewRun(kind, pc, wanted) ==
    [kind |-> kind, pc |-> pc, wanted |-> wanted, dapps |-> <<>>, outcome |-> "none"]

AlreadyRunning_never == FALSE
\* if (this.isRunning) { ...skipping...; return; }
AlreadyRunning == isRunning

GuardAfterCycle_noFinally(outcome) == outcome # "ok"
\* finally { this.isRunning = false; }: the guard's value once a cycle has ended
\* with the given outcome (normal end, catch, or early return)
GuardAfterCycle(outcome) == FALSE

\* runScheduledIngestion up to its first await: guard test and guard set
RunScheduledIngestion ==
    /\ Invocations < MaxInvocations
    /\ IF AlreadyRunning
         THEN /\ skipped' = skipped + 1
              /\ UNCHANGED <<isRunning, runs>>
         ELSE /\ isRunning' = TRUE
              /\ runs' = Append(runs, NewRun("scheduled", "fetch", {}))
              /\ UNCHANGED skipped

\* start(): arms the cron job and the delayed initial run
Start ==
    /\ ~cronJob
    /\ initialTimers < MaxTimers
    /\ cronJob' = TRUE
    /\ initialTimers' = initialTimers + 1
    /\ UNCHANGED <<isRunning, runs, skipped, dappsTable, nonSchedVars>>

\* stop(): stops and destroys the cron job
Stop ==
    /\ cronJob
    /\ cronJob' = FALSE
    /\ UNCHANGED <<isRunning, initialTimers, runs, skipped, dappsTable, nonSchedVars>>

\* the cron callback
CronTick ==
    /\ cronJob
    /\ RunScheduledIngestion
    /\ UNCHANGED <<cronJob, initialTimers, dappsTable, nonSchedVars>>

\* the setTimeout callback of start()
InitialRun ==
    /\ initialTimers > 0
    /\ initialTimers' = initialTimers - 1
    /\ RunScheduledIngestion
    /\ UNCHANGED <<cronJob, dappsTable, nonSchedVars>>

\* triggerIngestion()
TriggerIngestion ==
    /\ RunScheduledIngestion
    /\ UNCHANGED <<cronJob, initialTimers, dappsTable, nonSchedVars>>

\* runScheduledIngestion after `await this.fetchActiveDapps()`
CycleFetched(i) ==
    /\ runs[i].kind = "scheduled" /\ runs[i].pc = "fetch"
    /\ \E queryOk \in BOOLEAN :
         LET activeDapps == FetchActiveDapps(queryOk, dappsTable) IN
         IF Len(activeDapps) = 0
           THEN /\ runs' = [runs EXCEPT ![i].pc = "done", ![i].outcome = "empty"]
                /\ isRunning' = GuardAfterCycle("empty")
           ELSE /\ runs' = [runs EXCEPT ![i].pc = "ingest", ![i].dapps = activeDapps]
                /\ UNCHANGED isRunning
    /\ UNCHANGED <<cronJob, initialTimers, skipped, dappsTable, nonSchedVars>>

\* runScheduledIngestion after `await ingestMultipleDapps(activeDapps)`:
\* the try block ends normally or in the catch, then the finally runs
CycleEnded(i) ==
    /\ runs[i].kind = "scheduled" /\ runs[i].pc = "ingest"
    /\ \E outcome \in {"ok", "throw"} :
         /\ runs' = [runs EXCEPT ![i].pc = "done", ![i].outcome = outcome,
                                  ![i].dapps = <<>>]
         /\ isRunning' = GuardAfterCycle(outcome)
    /\ UNCHANGED <<cronJob, initialTimers, skipped, dappsTable, nonSchedVars>>

\* triggerIngestionForDapps(dappSlugs) up to its first await
TriggerIngestionForDapps ==
    /\ Invocations < MaxInvocations
    /\ \E wanted \in (SUBSET Slugs) \ {{}} :
         runs' = Append(runs, NewRun("manual", "query", wanted))
    /\ UNCHANGED <<isRunning, cronJob, initialTimers, skipped, dappsTable, nonSchedVars>>

\* triggerIngestionForDapps after the SELECT ... slug IN (...)
ManualQueried(i) ==
    /\ runs[i].kind = "manual" /\ runs[i].pc = "query"
    /\ \E queryOk \in BOOLEAN :
         LET dapps == ActiveRows(dappsTable \cap runs[i].wanted) IN
         IF ~queryOk
           THEN runs' = [runs EXCEPT ![i].pc = "done", ![i].outcome = "throw",
                                     ![i].wanted = {}]
           ELSE IF Len(dapps) = 0
             THEN runs' = [runs EXCEPT ![i].pc = "done", ![i].outcome = "empty",
                                       ![i].wanted = {}]
             ELSE runs' = [runs EXCEPT ![i].pc = "ingest", ![i].dapps = dapps,
                                       ![i].wanted = {}]
    /\ UNCHANGED <<isRunning, cronJob, initialTimers, skipped, dappsTable, nonSchedVars>>

\* triggerIngestionForDapps after `await ingestMultipleDapps(dapps)`
ManualEnded(i) ==
    /\ runs[i].kind = "manual" /\ runs[i].pc = "ingest"
    /\ \E outcome \in {"ok", "throw"} :
         runs' = [runs EXCEPT ![i].pc = "done", ![i].outcome = outcome,
                              ![i].dapps = <<>>]
    /\ UNCHANGED <<isRunning, cronJob, initialTimers, skipped, dappsTable, nonSchedVars>>

\* an administrator flips an application's status flag in the dapps table
SetDappStatus ==
    /\ \E s \in Slugs :
         dappsTable' = IF s \in dappsTable THEN dappsTable \ {s} ELSE dappsTable \cup {s}
    /\ UNCHANGED <<isRunning, cronJob, initialTimers, runs, skipped, nonSchedVars>>

SchedInit ==
    /\ isRunning = FALSE
    /\ cronJob = FALSE
    /\ initialTimers = 0
    /\ runs = <<>>
    /\ skipped = 0
    /\ dappsTable \in SUBSET Slugs


\* ------------------------------------------------------------------------
\* Time (utils/time.ts). A time is an integer number of ticks, UnitsPerHour
\* ticks to the hour; an hour bucket is named by the time of its start.
\* ------------------------------------------------------------------------
UnitsPerHour == 2
NowTime      == 5        \* new Date() during the modelled sync
HoursBack    == 1        \* ingestionConfig.hoursBack (INGEST_HOURS_BACK)

\* floorToHourUTC: setUTCMinutes(0, 0, 0)
FloorToHourUTC(t) == t - (t % UnitsPerHour)

\* calculateIngestionCutoff: now - hoursBack * 3600 * 1000
CalculateIngestionCutoff(now, hoursBack) == now - hoursBack * UnitsPerHour

\* ------------------------------------------------------------------------
\* Aggregation store (db/queries.ts). A row of dapp_stats_hourly is keyed by
\* <<dapp_id, ts_hour>> and a row of dapp_hourly_users by
\* <<dapp_id, ts_hour, user_address>>; chain_id is the same in every call.
\* ------------------------------------------------------------------------
MaxTxCount == 2          \* SpecStore stops adding to a bucket at this count

\* user addresses as the source reports them, in either letter case
Senders == {"U1", "u1", "U2"}

\* String.prototype.toLowerCase on those addresses
ToLowerCase(a) == CASE a = "U1" -> "u1"
                    [] a = "U2" -> "u2"
                    [] a = "0xAB" -> "0xab"
                    [] a = "0xCD" -> "0xcd"
                    [] OTHER    -> a

EmptyDb == [stats |-> <<>>, users |-> {}]

HasBucket(d, dappId, tsHour) == <<dappId, tsHour>> \in DOMAIN d.stats

\* the rows of dapp_hourly_users of one (dapp, hour)
HourlyUsers(d, dappId, tsHour) ==
    {r \in d.users : r[1] = dappId /\ r[2] = tsHour}

UpsertHourlyTxCount_overwrite(d, dappId, tsHour, delta) ==
    [d EXCEPT !.stats =
        IF HasBucket(d, dappId, tsHour)
          THEN [@ EXCEPT ![<<dappId, tsHour>>].tx_count = delta]
          ELSE @ @@ (<<dappId, tsHour>> :> [tx_count |-> delta, unique_users |-> 0])]
\* INSERT ... VALUES (?, ?, ?, delta, 0)
\*   ON DUPLICATE KEY UPDATE tx_count = tx_count + VALUES(tx_count)
UpsertHourlyTxCount(d, dappId, tsHour, delta) ==
    [d EXCEPT !.stats =
        IF HasBucket(d, dappId, tsHour)
          THEN [@ EXCEPT ![<<dappId, tsHour>>].tx_count = @ + delta]
          ELSE @ @@ (<<dappId, tsHour>> :> [tx_count |-> delta, unique_users |-> 0])]

InsertHourlyUserOnce_lastOnly(d, dappId, tsHour, userAddress) ==
    [d EXCEPT !.users = {r \in @ : ~(r[1] = dappId /\ r[2] = tsHour)}
                           \cup {<<dappId, tsHour, ToLowerCase(userAddress)>>}]
InsertHourlyUserOnce_caseKept(d, dappId, tsHour, userAddress) ==
    [d EXCEPT !.users = @ \cup {<<dappId, tsHour, userAddress>>}]
\* INSERT IGNORE INTO dapp_hourly_users ... VALUES (..., userAddress.toLowerCase())
InsertHourlyUserOnce(d, dappId, tsHour, userAddress) ==
    [d EXCEPT !.users = @ \cup {<<dappId, tsHour, ToLowerCase(userAddress)>>}]

\* UPDATE dapp_stats_hourly SET unique_users = (SELECT COUNT(*) FROM
\*   dapp_hourly_users WHERE key) WHERE key: no row, no change
RefreshHourlyUnique(d, dappId, tsHour) ==
    IF HasBucket(d, dappId, tsHour)
      THEN [d EXCEPT !.stats[<<dappId, tsHour>>].unique_users =
                        Cardinality(HourlyUsers(d, dappId, tsHour))]
      ELSE d

\* the keys SpecStore writes to: two hours of one application, one hour of another
StoreKeys == { <<1, FloorToHourUTC(NowTime)>>,
               <<1, FloorToHourUTC(NowTime) - UnitsPerHour>>,
               <<2, FloorToHourUTC(NowTime)>> }

StoreUpsert ==
    /\ \E k \in StoreKeys, delta \in {0, 1} :
         /\ HasBucket(db, k[1], k[2]) => db.stats[k].tx_count + delta <= MaxTxCount
         /\ db' = UpsertHourlyTxCount(db, k[1], k[2], delta)
    /\ UNCHANGED <<schedVars, apiVars, jobVars, syncVars, clientVars>>

StoreInsertUser ==
    /\ \E k \in StoreKeys, u \in Senders :
         db' = InsertHourlyUserOnce(db, k[1], k[2], u)
    /\ UNCHANGED <<schedVars, apiVars, jobVars, syncVars, clientVars>>

StoreRefresh ==
    /\ \E k \in StoreKeys :
         db' = RefreshHourlyUnique(db, k[1], k[2])
    /\ UNCHANGED <<schedVars, apiVars, jobVars, syncVars, clientVars>>


\* ------------------------------------------------------------------------
\* Storyscan client (clients/storyscan.ts): retry interceptor and errors
\* ------------------------------------------------------------------------
MaxRetries == 3          \* if (retryCount < 3)
NoResponse == 0          \* error.response is undefined: timeout or network error
maxPages   == 10         \* const maxPages = 10

\* what a request attempt can end in: an HTTP status, or no response at all
HttpStatuses == {200, 404, 422, 429, 503}
Outcomes     == HttpStatuses \cup {NoResponse}

\* the outcomes the page requests of a sync are tried with: success, the
\* retryable 503, the pagination error 422, and no response
PageOutcomes == {200, 422, 503, NoResponse}

\* error.response?.status >= 500 || error.response?.status === 429
Retryable(status) == status >= 500 \/ status = 429

InterceptorDecision_offByOne(status, retryCount) ==
    IF status = 200 THEN "resolve"
    ELSE IF Retryable(status) /\ retryCount <= MaxRetries THEN "retry"
    ELSE "throw"
InterceptorDecision_dropsRetried(status, retryCount) ==
    IF status = 200 /\ retryCount = 0 THEN "resolve"
    ELSE IF Retryable(status) /\ retryCount < MaxRetries THEN "retry"
    ELSE "throw"
\* the response interceptor: a 2xx resolves; a 5xx or 429 is requested again
\* while retryCount < 3, and the promise of the retried request becomes the
\* result; anything else is thrown
InterceptorDecision(status, retryCount) ==
    IF status = 200 THEN "resolve"
    ELSE IF Retryable(status) /\ retryCount < MaxRetries THEN "retry"
    ELSE "throw"

\* the AxiosError of an attempt: error.response.status, if there is a response
AxiosError(status) == [hasResponse |-> status # NoResponse, status |-> status]

\* getAddressTransactions' catch: throw new Error(`Failed to fetch ...`),
\* a plain Error that carries no response
WrapError(e) == [hasResponse |-> FALSE, status |-> NoResponse]

\* iterateAddressTransactions' catch:
\*   'response' in error && error.response?.status === 422
IsPaginationError(e) == e.hasResponse /\ e.status = 422

\* ------------------------------------------------------------------------
\* One application sync: StatsRepository.ingestDappTransactions driving
\* StoryscanClient.iterateAddressTransactions
\* ------------------------------------------------------------------------
MaxSrcPages == 2         \* pages the source serves per address
MaxItems    == 2         \* transactions per page
NoTimestamp == -1        \* tx.timestamp absent
MaxRerunItems == 1       \* transactions per address in a repeated sync
MaxFaultItems == 1       \* transactions per page when the pool may fail

Cutoff == CalculateIngestionCutoff(NowTime, HoursBack)

\* timestamps the source may report: from one tick before the cutoff to now
TxTimes    == {t \in 0..NowTime : t >= Cutoff - 1}
TxStatuses == {"ok", "failed", "reverted", "pending"}
TxSenders  == Senders \cup {""}
Transactions ==
    [timestamp : TxTimes \cup {NoTimestamp},
     from      : TxSenders,
     status    : TxStatuses]

\* new Date(tx.timestamp) < cutoffTime (an Invalid Date compares false)
OlderThanCutoff(tx, cutoffTime) ==
    tx.timestamp # NoTimestamp /\ tx.timestamp < cutoffTime

Discarded_onlySuccess(tx) == tx.status # "ok"
\* processAddressTransactions: the three `continue` tests
Discarded(tx) ==
    \/ tx.status = "failed" \/ tx.status = "reverted"
    \/ tx.timestamp = NoTimestamp
    \/ tx.from = ""

\* Set<Date>.add: every tsHour is a new Date object, so every add grows the
\* set; the set is kept as the number of Date objects per hour
HoursTouchedAdd(hoursTouched, tsHour) ==
    IF tsHour \in DOMAIN hoursTouched
      THEN [hoursTouched EXCEPT ![tsHour] = @ + 1]
      ELSE hoursTouched @@ (tsHour :> 1)

\* Set<Date>.has(currentHourCursor): the cursor is a Date object of its own,
\* never one of the set's members
HoursTouchedHas(hoursTouched, cursor) == FALSE

HoursTouchedSize_distinct(b) == Cardinality(DOMAIN b)
RECURSIVE HoursTouchedSize(_)
\* Set<Date>.size
HoursTouchedSize(b) ==
    IF DOMAIN b = {} THEN 0
    ELSE LET h == CHOOSE x \in DOMAIN b : TRUE IN
         b[h] + HoursTouchedSize([x \in DOMAIN b \ {h} |-> b[x]])

RECURSIVE FillEmptyHours(_, _, _, _, _, _)
\* fillEmptyHours: while (cursor <= currentHour) { if (!has) upsert(..., 0); cursor += 1h }
\* the upsert of an hour in `failing` throws, which the loop catches and logs
FillEmptyHours(d, dappId, cursor, currentHour, hoursTouched, failing) ==
    IF cursor > currentHour THEN d
    ELSE FillEmptyHours(
            IF ~HoursTouchedHas(hoursTouched, cursor) /\ cursor \notin failing
              THEN UpsertHourlyTxCount(d, dappId, cursor, 0)
              ELSE d,
            dappId, cursor + UnitsPerHour, currentHour, hoursTouched, failing)

RECURSIVE RefreshEach(_, _, _)
RefreshEach(d, dappId, hours) ==
    IF hours = {} THEN d
    ELSE LET h == CHOOSE x \in hours : TRUE IN
         RefreshEach(RefreshHourlyUnique(d, dappId, h), dappId, hours \ {h})

RefreshTouchedHours_none(d, dappId, hoursTouched) == d
\* refreshTouchedHours: for (const tsHour of hoursTouched) refreshHourlyUnique(...)
RefreshTouchedHours(d, dappId, hoursTouched) ==
    RefreshEach(d, dappId, DOMAIN hoursTouched)

RefreshCalls_perHour(hoursTouched) == [h \in DOMAIN hoursTouched |-> 1]
\* the refreshHourlyUnique calls of refreshTouchedHours, per hour: one for
\* every member of the Set
RefreshCalls(hoursTouched) == hoursTouched

Refreshed_abortBatch(hoursTouched, failed) ==
    [h \in {x \in DOMAIN hoursTouched :
              \A y \in DOMAIN hoursTouched : y <= x => failed[y] = 0} |->
        hoursTouched[h]]
\* the members of hoursTouched left when failed[h] of the calls for hour h
\* throw (caught and logged per call)
Refreshed(hoursTouched, failed) ==
    [h \in {x \in DOMAIN hoursTouched : failed[x] < hoursTouched[x]} |->
        hoursTouched[h] - failed[h]]

NewIter ==
    [hasMore |-> TRUE, nextPageParams |-> FALSE, pageCount |-> 0,
     pageLeft |-> 0, pageNext |-> FALSE]

NewReq == [retryCount |-> 0, log |-> <<>>, result |-> "none"]

\* what a run is seen to accept from one address: nothing, one transaction
\* (its hour and sender as reported), or several
NoneAccepted == [seen |-> "none", tsHour |-> NoTimestamp, from |-> ""]

Accept(acc, tsHour, from) ==
    IF acc.seen = "none"
      THEN [seen |-> "one", tsHour |-> tsHour, from |-> from]
      ELSE [seen |-> "several", tsHour |-> NoTimestamp, from |-> ""]

\* the source's side of a repeated sync: while the first run is recorded,
\* `todo` collects per address the transactions it accepted; in the replay
\* the source lists exactly those again, and `first` is the store the first
\* run left
NoReplay == [phase |-> "off", todo |-> <<>>, first |-> EmptyDb]

\* what the source may list next for the current address
Listed(s, tx) ==
    s.replay.phase = "replay" =>
        /\ s.replay.todo[s.idx] # <<>>
        /\ tx = [timestamp |-> Head(s.replay.todo[s.idx])[1],
                 from      |-> Head(s.replay.todo[s.idx])[2],
                 status    |-> "ok"]

\* how the source may answer a page request of the run
Answers(s) == IF s.replay.phase = "replay" THEN {200} ELSE PageOutcomes

\* the source's record once the run has been handed tx
AfterListed(s, tx) ==
    CASE s.replay.phase = "record" /\ ~Discarded(tx) ->
           [s.replay EXCEPT !.todo[s.idx] = Append(@, <<tx.timestamp, tx.from>>)]
      [] s.replay.phase = "replay" ->
           [s.replay EXCEPT !.todo[s.idx] = Tail(@)]
      [] OTHER -> s.replay

\* a sync of application 1 over `addresses`; the source serves at most
\* srcPages pages of at most srcItems transactions per address; with
\* `observe` the run also records what it accepted from each address
NewSync(addresses, srcPages, srcItems, observe) ==
    [pc |-> "address", dappId |-> 1, addresses |-> addresses, idx |-> 1,
     cutoffTime |-> Cutoff,
     srcPages |-> srcPages, srcItems |-> srcItems, observe |-> observe,
     result |-> [addressesProcessed |-> 0, transactionsProcessed |-> 0,
                 hoursTouched |-> <<>>],
     outcome |-> [i \in 1..Len(addresses) |-> "none"],
     \* the addresses (by position) whose stream has been opened and has
     \* neither ended nor failed
     open |-> {},
     \* whether the pool may reject a statement of this run
     storeErrors |-> FALSE,
     \* refreshHourlyUnique calls issued so far, per hour, and whether one threw
     refreshCalls |-> <<>>, refreshFailed |-> FALSE,
     \* how many of the calls threw, per hour
     refreshThrown |-> <<>>,
     \* observations of the run, written but never read by it
     sawOld |-> FALSE,
     accepted |-> [i \in 1..Len(addresses) |-> NoneAccepted],
     replay |-> NoReplay]

Opened_all(s) == s.idx..Len(s.addresses)
\* for (const address of addresses) { await this.processAddressTransactions(...) }:
\* one pass of the loop opens the stream of one address
Opened(s) == {s.idx}

\* the address loop of ingestDappTransactions: the generator of the next
\* address is created, or the loop is over
BeginAddress ==
    /\ sync.pc = "address"
    /\ IF sync.idx <= Len(sync.addresses)
         THEN sync' = [sync EXCEPT !.pc = "loop", !.sawOld = FALSE,
                                   !.open = @ \cup Opened(sync)]
         ELSE sync' = [sync EXCEPT !.pc = "fill"]
    /\ iter' = NewIter
    /\ req' = NewReq
    /\ UNCHANGED <<db, schedVars, apiVars, jobVars, clientVars>>

\* processAddressTransactions returns: result.addressesProcessed++
AddressOk(s) ==
    [s EXCEPT !.pc = "address", !.idx = @ + 1,
              !.outcome[s.idx] = "ok",
              !.open = @ \ {s.idx},
              !.result.addressesProcessed = @ + 1]

AddressFailed_forgetsHours(s) ==
    [s EXCEPT !.pc = "address", !.idx = @ + 1, !.outcome[s.idx] = "failed",
              !.open = @ \ {s.idx},
              !.result.hoursTouched = <<>>]
AddressFailed_aborts(s) ==
    [s EXCEPT !.pc = "aborted", !.outcome[s.idx] = "failed",
              !.open = @ \ {s.idx}]
\* processAddressTransactions throws: caught and logged by the address loop
AddressFailed(s) ==
    [s EXCEPT !.pc = "address", !.idx = @ + 1, !.outcome[s.idx] = "failed",
              !.open = @ \ {s.idx}]

LoopCondition_noCap(it) == it.hasMore
\* while (hasMore && pageCount < maxPages)
LoopCondition(it) == it.hasMore /\ it.pageCount < maxPages

\* while (hasMore && pageCount < maxPages) { pageCount++; getAddressTransactions(...) }
LoopTest ==
    /\ sync.pc = "loop"
    /\ IF LoopCondition(iter)
         THEN /\ iter' = [iter EXCEPT !.pageCount = @ + 1]
              /\ req' = NewReq
              /\ sync' = [sync EXCEPT !.pc = "request"]
         ELSE /\ sync' = AddressOk(sync)
              /\ UNCHANGED <<iter, req>>
    /\ UNCHANGED <<db, schedVars, apiVars, jobVars, clientVars>>

\* one attempt of the page request comes back
Attempt ==
    /\ sync.pc = "request"
    /\ \E status \in Answers(sync) :
         LET decision == InterceptorDecision(status, req.retryCount)
             log      == Append(req.log, status)
         IN
         CASE decision = "retry" ->
                /\ req' = [req EXCEPT !.retryCount = @ + 1, !.log = log]
                /\ UNCHANGED <<sync, iter>>
           [] decision = "resolve" ->
                \* response.data: its items and its next_page_params
                /\ req' = [req EXCEPT !.log = log, !.result = "ok"]
                /\ \E n \in 0..sync.srcItems, next \in BOOLEAN :
                     /\ next => iter.pageCount < sync.srcPages
                     /\ sync.replay.phase = "replay" =>
                          n = Len(sync.replay.todo[sync.idx]) /\ ~next
                     /\ iter' = [iter EXCEPT !.pageLeft = n, !.pageNext = next]
                /\ sync' = [sync EXCEPT !.pc = "response"]
           [] OTHER ->
                \* getAddressTransactions rethrows, the generator's catch runs
                LET e == WrapError(AxiosError(status)) IN
                /\ req' = [req EXCEPT !.log = log, !.result = "error"]
                /\ iter' = [iter EXCEPT !.hasMore = FALSE]
                /\ sync' = IF IsPaginationError(e)
                             THEN AddressOk(sync) ELSE AddressFailed(sync)
    /\ UNCHANGED <<db, schedVars, apiVars, jobVars, clientVars>>

\* const response = await this.getAddressTransactions(...) resumes in the
\* generator, which enters the for loop over response.items
ResponseReturned ==
    /\ sync.pc = "response"
    /\ sync' = [sync EXCEPT !.pc = "items"]
    /\ req' = NewReq
    /\ UNCHANGED <<iter, db, schedVars, apiVars, jobVars, clientVars>>

\* how the pool answers the two statements of transaction tx; a transaction
\* that is not applied sends none
WriteOutcomes(s, tx) ==
    IF s.storeErrors /\ ~Discarded(tx) /\ ~OlderThanCutoff(tx, s.cutoffTime)
      THEN {"ok", "upsert throws", "insert throws"}
      ELSE {"ok"}

ProcessTransaction_insertFirst(d, result, dappId, tx, write) ==
    IF Discarded(tx)
      THEN [db |-> d, result |-> result]
      ELSE LET tsHour == FloorToHourUTC(tx.timestamp)
               withUser == InsertHourlyUserOnce(d, dappId, tsHour, tx.from)
           IN
           CASE write = "insert throws" -> [db |-> d, result |-> result]
             [] write = "upsert throws" -> [db |-> withUser, result |-> result]
             [] OTHER ->
                  [db |-> UpsertHourlyTxCount(withUser, dappId, tsHour, 1),
                   result |-> [result EXCEPT
                                 !.hoursTouched = HoursTouchedAdd(@, tsHour),
                                 !.transactionsProcessed = @ + 1]]
\* the body of processAddressTransactions' loop for one yielded transaction:
\* the store and the result record after it; a statement that throws is
\* caught and logged by the inner try, and the loop continues
ProcessTransaction(d, result, dappId, tx, write) ==
    IF Discarded(tx)
      THEN [db |-> d, result |-> result]
      ELSE LET tsHour == FloorToHourUTC(tx.timestamp) IN
           CASE write = "upsert throws" -> [db |-> d, result |-> result]
             [] write = "insert throws" ->
                  [db |-> UpsertHourlyTxCount(d, dappId, tsHour, 1),
                   result |-> result]
             [] OTHER ->
                  [db |-> InsertHourlyUserOnce(
                             UpsertHourlyTxCount(d, dappId, tsHour, 1),
                             dappId, tsHour, tx.from),
                   result |-> [result EXCEPT
                                 !.hoursTouched = HoursTouchedAdd(@, tsHour),
                                 !.transactionsProcessed = @ + 1]]

\* the statements after the for loop over response.items:
\*   nextPageParams = response.next_page_params; hasMore = !!nextPageParams
AfterItems(it) ==
    [it EXCEPT !.nextPageParams = it.pageNext, !.hasMore = it.pageNext,
               !.pageLeft = 0, !.pageNext = FALSE]

\* for (const tx of response.items): the cutoff test, the yield, and the
\* consumer's loop body in processAddressTransactions
NextItem ==
    /\ sync.pc = "items"
    /\ iter.pageLeft > 0
    /\ \E tx \in {t \in Transactions : Listed(sync, t)} :
       \E write \in WriteOutcomes(sync, tx) :
         IF OlderThanCutoff(tx, sync.cutoffTime)
           THEN \* hasMore = false; break;
                /\ iter' = AfterItems([iter EXCEPT !.hasMore = FALSE])
                /\ sync' = [sync EXCEPT !.pc = "loop", !.sawOld = TRUE]
                /\ UNCHANGED db
           ELSE LET out == ProcessTransaction(db, sync.result, sync.dappId,
                                              tx, write) IN
                /\ db' = out.db
                /\ sync' = [sync EXCEPT
                      !.result = out.result,
                      !.replay = AfterListed(sync, tx),
                      !.accepted[sync.idx] =
                          IF sync.observe /\ ~Discarded(tx)
                            THEN Accept(@, FloorToHourUTC(tx.timestamp), tx.from)
                            ELSE @]
                /\ iter' = [iter EXCEPT !.pageLeft = @ - 1]
    /\ UNCHANGED <<req, schedVars, apiVars, jobVars, clientVars>>

\* the for loop over response.items ends
PageDrained ==
    /\ sync.pc = "items"
    /\ iter.pageLeft = 0
    /\ iter' = AfterItems(iter)
    /\ sync' = [sync EXCEPT !.pc = "loop"]
    /\ UNCHANGED <<req, db, schedVars, apiVars, jobVars, clientVars>>

\* the hours whose zero upsert the pool may reject
FillFailures(s) ==
    IF s.storeErrors
      THEN SUBSET {h \in FloorToHourUTC(s.cutoffTime)..FloorToHourUTC(NowTime) :
                      h = FloorToHourUTC(h)}
      ELSE {{}}

\* how many of the refresh calls of each hour the pool may reject
RefreshFailures(s) ==
    LET hoursTouched == s.result.hoursTouched IN
    IF s.storeErrors
      THEN {f \in [DOMAIN hoursTouched -> 0..s.result.transactionsProcessed] :
              \A h \in DOMAIN hoursTouched : f[h] <= hoursTouched[h]}
      ELSE {[h \in DOMAIN hoursTouched |-> 0]}

\* await this.fillEmptyHours(dappId, cutoffTime, result.hoursTouched)
FillHours ==
    /\ sync.pc = "fill"
    /\ \E failing \in FillFailures(sync) :
         db' = FillEmptyHours(db, sync.dappId, FloorToHourUTC(sync.cutoffTime),
                              FloorToHourUTC(NowTime), sync.result.hoursTouched,
                              failing)
    /\ sync' = [sync EXCEPT !.pc = "refresh"]
    /\ UNCHANGED <<iter, req, schedVars, apiVars, jobVars, clientVars>>

\* await this.refreshTouchedHours(dappId, result.hoursTouched); return result
RefreshHours ==
    /\ sync.pc = "refresh"
    /\ \E failed \in RefreshFailures(sync) :
         /\ db' = RefreshTouchedHours(db, sync.dappId,
                       Refreshed(sync.result.hoursTouched, failed))
         /\ sync' = [sync EXCEPT
               !.pc = "done",
               !.refreshCalls = RefreshCalls(sync.result.hoursTouched),
               !.refreshFailed = \E h \in DOMAIN failed : failed[h] > 0,
               !.refreshThrown = failed]
    /\ UNCHANGED <<iter, req, schedVars, apiVars, jobVars, clientVars>>

\* the next cycle syncs the same application again: same addresses, same
\* cutoff, and the source lists what the first run accepted
RerunSync ==
    /\ sync.pc = "done"
    /\ sync.replay.phase = "record"
    /\ sync' = [NewSync(sync.addresses, sync.srcPages, sync.srcItems, FALSE)
                  EXCEPT !.replay = [phase |-> "replay",
                                     todo  |-> sync.replay.todo,
                                     first |-> db]]
    /\ iter' = NewIter
    /\ req' = NewReq
    /\ UNCHANGED <<db, schedVars, apiVars, jobVars, clientVars>>

\* ------------------------------------------------------------------------
\* Ingestion jobs (jobs/ingest.ts): IngestionJob.execute and the
\* multi-application driver IngestionJob.executeMultiple
\* ------------------------------------------------------------------------
\* the address hashes the source may list for a slug
Addresses == {"A1", "A2"}

\* dapps.id of a slug (getDappBySlug, or the insertId of createDapp)
DappIdOf(slug) == CHOOSE i \in DOMAIN DbOrder : DbOrder[i] = slug

\* the rows of getDappAddresses in the order the table returns them
AddressRows(linked) ==
    SelectSeq(<<"A1", "A2">>, LAMBDA a : a \in linked)

\* const result = { success: false, dappId: 0, addressesProcessed: 0, ... }
NewJobResult ==
    [success |-> FALSE, dappId |-> 0, addressesProcessed |-> 0,
     transactionsProcessed |-> 0, hoursTouched |-> 0, error |-> "none"]

\* executeMultiple(configs) with the dapp_addresses links the database holds
\* the addresses table (row i has id i), the dapp_addresses table as pairs
\* <<dapp_id, address_id>>, and the database server's clock
EmptyBook == [addresses |-> <<>>, links |-> {}, now |-> 0]

\* `active` holds the configs (by position) whose execute() has been called
\* and has not returned
NewJob(configs, linked) ==
    [configs |-> configs, idx |-> 1, pc |-> "getOrCreate",
     result |-> NewJobResult, results |-> <<>>, linked |-> linked,
     book |-> EmptyBook,
     active |-> IF configs = <<>> THEN {} ELSE {1}]

Fatal_ignored(j, errorMessage) == [j EXCEPT !.pc = "getAddresses"]
\* execute's catch: result.error = errorMessage; result.success = false
Fatal(j, errorMessage) ==
    [j EXCEPT !.pc = "finished", !.result.success = FALSE,
              !.result.error = errorMessage]

\* Step 1: dappRepository.getOrCreateDapp(slug, name); result.dappId = dappId
JobGetOrCreateDapp ==
    /\ job.pc = "getOrCreate"
    /\ \E queryOk \in BOOLEAN :
         job' = IF queryOk
                  THEN [job EXCEPT !.pc = "syncAddresses",
                                   !.result.dappId = DappIdOf(job.configs[job.idx])]
                  ELSE Fatal(job, "database")
    /\ req' = NewReq
    /\ UNCHANGED <<db, sync, iter, schedVars, apiVars, clientVars>>

\* Step 2: dappRepository.syncDappAddresses: one attempt of the request of
\* getAddressesBySlug comes back; a response lists the slug's addresses,
\* which processAddress links to the application
JobSyncDappAddresses ==
    /\ job.pc = "syncAddresses"
    /\ \E status \in PageOutcomes :
         LET decision == InterceptorDecision(status, req.retryCount)
             log      == Append(req.log, status)
             slug     == job.configs[job.idx]
         IN
         CASE decision = "retry" ->
                /\ req' = [req EXCEPT !.retryCount = @ + 1, !.log = log]
                /\ UNCHANGED job
           [] decision = "resolve" ->
                /\ req' = [req EXCEPT !.log = log, !.result = "ok"]
                /\ \E items \in {{}} \cup {{a} : a \in Addresses}, storeOk \in BOOLEAN :
                     job' = IF items = {}
                              THEN \* throw new Error(`No addresses found for dApp`)
                                   Fatal(job, "no addresses")
                              ELSE IF storeOk
                                THEN [job EXCEPT !.pc = "getAddresses",
                                                 !.linked[slug] = @ \cup items]
                                ELSE Fatal(job, "database")
           [] OTHER ->
                /\ req' = [req EXCEPT !.log = log, !.result = "error"]
                /\ job' = Fatal(job, "source")
    /\ UNCHANGED <<db, sync, iter, schedVars, apiVars, clientVars>>

\* Steps 3 to 5: getDappAddresses, the empty test, calculateIngestionCutoff
\* and the call of statsRepository.ingestDappTransactions
JobGetDappAddresses ==
    /\ job.pc = "getAddresses"
    /\ LET slug          == job.configs[job.idx]
           addressHashes == AddressRows(job.linked[slug])
       IN
       IF Len(addressHashes) = 0
         THEN /\ job' = Fatal(job, "no addresses")
              /\ UNCHANGED <<sync, iter>>
         ELSE /\ job' = [job EXCEPT !.pc = "ingest"]
              /\ sync' = [NewSync(addressHashes, 1, 1, FALSE)
                            EXCEPT !.dappId = job.result.dappId]
              /\ iter' = NewIter
    /\ req' = NewReq
    /\ UNCHANGED <<db, schedVars, apiVars, clientVars>>

\* ingestDappTransactions has returned: the result is filled in from it
JobIngested ==
    /\ job.pc = "ingest"
    /\ sync.pc = "done"
    /\ job' = [job EXCEPT
          !.pc = "finished",
          !.result.addressesProcessed = sync.result.addressesProcessed,
          !.result.transactionsProcessed = sync.result.transactionsProcessed,
          !.result.hoursTouched = HoursTouchedSize(sync.result.hoursTouched),
          !.result.success = TRUE]
    /\ UNCHANGED <<db, sync, iter, req, schedVars, apiVars, clientVars>>

Executed_all(j) == 1..Len(j.configs)
\* const result = await job.execute(): the pass of the loop that has pushed
\* the result of config idx calls execute() of the next config, if any
Executed(j) == IF j.idx < Len(j.configs) THEN {j.idx + 1} ELSE {}

AfterPush_stopsOnFailure(j) ==
    IF j.result.success /\ j.idx < Len(j.configs) THEN "getOrCreate" ELSE "returned"
\* for (const config of configs): the loop goes on to the next config, if any
AfterPush(j) ==
    IF j.idx < Len(j.configs) THEN "getOrCreate" ELSE "returned"

\* executeMultiple: results.push(result), then the next config or the return
DriverPush ==
    /\ job.pc = "finished"
    /\ job.idx <= Len(job.configs)
    /\ job' = [job EXCEPT
          !.results = Append(@, job.result),
          !.idx = @ + 1,
          !.result = NewJobResult,
          !.active = (@ \ {job.idx}) \cup Executed(job),
          !.pc = AfterPush(job)]
    /\ sync' = [NewSync(<<>>, 0, 0, FALSE) EXCEPT !.pc = "idle"]
    /\ iter' = NewIter
    /\ req' = NewReq
    /\ UNCHANGED <<db, schedVars, apiVars, clientVars>>

\* ------------------------------------------------------------------------
\* Concurrent callers of the shared StoryscanClient: every call is
\* this.limiter.schedule(() => this.client.get(...)), and the limiter is
\* new Bottleneck({ minTime, maxConcurrent: 1 })
\* ------------------------------------------------------------------------
MaxConcurrent == 1       \* maxConcurrent: 1

\* who calls the client: the scheduled cycle, a manual trigger, the health
\* check and a transaction-by-hash lookup
Callers == {"cycle", "manual", "health", "txhash"}

IdleCaller == [pc |-> "idle", retryCount |-> 0, log |-> <<>>]

NoCall == [log |-> <<>>, result |-> "none"]

\* jobs the limiter has started and whose promise has not settled
Executing == {c \in Callers : callers[c].pc \in {"inflight", "backoff"}}

\* HTTP requests sent and not yet answered
InFlight == {c \in Callers : callers[c].pc = "inflight"}

LimiterHasSlot_unlimited == TRUE
\* Bottleneck starts a queued job only while fewer than maxConcurrent run
LimiterHasSlot == Cardinality(Executing) < MaxConcurrent

\* limiter.schedule(job): the job joins the limiter's queue
Schedule(c) ==
    /\ callers[c].pc = "idle"
    /\ callers' = [callers EXCEPT ![c].pc = "queued"]
    /\ queue' = Append(queue, c)
    /\ UNCHANGED <<lastCall, schedVars, apiVars, jobVars, storeVars, syncVars>>

\* the limiter starts the oldest queued job: client.get sends the request
LimiterStart ==
    /\ queue # <<>>
    /\ LimiterHasSlot
    /\ callers' = [callers EXCEPT ![Head(queue)].pc = "inflight"]
    /\ queue' = Tail(queue)
    /\ UNCHANGED <<lastCall, schedVars, apiVars, jobVars, storeVars, syncVars>>

\* an attempt is answered (or times out) and the response interceptor runs;
\* when it resolves or throws, the job's promise settles, the limiter's slot
\* is free again and the caller's await resumes
ClientAttempt(c) ==
    /\ callers[c].pc = "inflight"
    /\ \E status \in Outcomes :
         LET decision == InterceptorDecision(status, callers[c].retryCount)
             log      == Append(callers[c].log, status)
         IN
         CASE decision = "retry" ->
                /\ callers' = [callers EXCEPT ![c] =
                     [@ EXCEPT !.pc = "backoff", !.retryCount = @ + 1, !.log = log]]
                /\ UNCHANGED lastCall
           [] decision = "resolve" ->
                /\ callers' = [callers EXCEPT ![c] = IdleCaller]
                /\ lastCall' = [log |-> log, result |-> "ok"]
           [] OTHER ->
                /\ callers' = [callers EXCEPT ![c] = IdleCaller]
                /\ lastCall' = [log |-> log, result |-> "error"]
    /\ UNCHANGED <<queue, schedVars, apiVars, jobVars, storeVars, syncVars>>

\* after the backoff delay: return this.client.request(error.config)
RetrySend(c) ==
    /\ callers[c].pc = "backoff"
    /\ callers' = [callers EXCEPT ![c].pc = "inflight"]
    /\ UNCHANGED <<queue, lastCall, schedVars, apiVars, jobVars, storeVars, syncVars>>

\* ------------------------------------------------------------------------
\* Statistics API: time windows (utils/time.ts), window queries
\* (db/queries.ts), formatting (utils/format.ts, api/routes/dapps.stats.ts)
\* ------------------------------------------------------------------------
Timeframes == {"24H", "7D", "30D"}

\* switch (timeframe): the window's length in hours
WindowHours(timeframe) ==
    CASE timeframe = "24H" -> 24
      [] timeframe = "7D"  -> 7 * 24
      [] timeframe = "30D" -> 30 * 24

\* calculateWindowBounds, with `now` the value of new Date()
CalculateWindowBounds(now, timeframe) ==
    LET t0     == FloorToHourUTC(now)
        t1     == t0 - WindowHours(timeframe) * UnitsPerHour
        tPrev1 == t1 - WindowHours(timeframe) * UnitsPerHour
    IN [t0 |-> t0, t1 |-> t1, tPrev1 |-> tPrev1]

InWindow_inclusiveEnd(tsHour, startTime, endTime) ==
    tsHour >= startTime /\ tsHour <= endTime
\* WHERE ts_hour >= ? AND ts_hour < ?
InWindow(tsHour, startTime, endTime) ==
    tsHour >= startTime /\ tsHour < endTime

\* no call of the statistics API is in progress
ApiReady == api.call = "none"

\* the caller has taken the result of the call
ApiReturned ==
    /\ api.call # "none"
    /\ api' = [call |-> "none", args |-> <<>>, result |-> <<>>]
    /\ UNCHANGED <<db, schedVars, syncVars, jobVars, clientVars>>

\* a request computes its window bounds
CallCalculateWindowBounds ==
    /\ ApiReady
    /\ \E now \in 0..NowTime, timeframe \in Timeframes :
         api' = [call |-> "calculateWindowBounds",
                 args |-> <<now, timeframe>>,
                 result |-> CalculateWindowBounds(now, timeframe)]
    /\ UNCHANGED <<db, schedVars, syncVars, jobVars, clientVars>>

\* --- window sums ---------------------------------------------------------
CurrentHour == FloorToHourUTC(NowTime)

\* the dapp_stats_hourly rows of the applications inside the window
WindowRows(d, dappIds, startTime, endTime) ==
    {k \in DOMAIN d.stats :
        k[1] \in dappIds /\ InWindow(k[2], startTime, endTime)}

\* SUM(tx_count), SUM(unique_users) over a set of rows
RECURSIVE SumRows(_, _)
SumRows(d, rows) ==
    IF rows = {} THEN [tx_count |-> 0, unique_users |-> 0]
    ELSE LET k    == CHOOSE x \in rows : TRUE
             rest == SumRows(d, rows \ {k})
         IN [tx_count     |-> d.stats[k].tx_count + rest.tx_count,
             unique_users |-> d.stats[k].unique_users + rest.unique_users]

GetDappStatsInWindow_distinctUsers(d, dappIds, startTime, endTime) ==
    LET rows == WindowRows(d, dappIds, startTime, endTime)
    IN [id \in {k[1] : k \in rows} |->
          [SumRows(d, {k \in rows : k[1] = id}) EXCEPT
             !.unique_users =
                Cardinality({r[3] : r \in {x \in d.users :
                    x[1] = id /\ InWindow(x[2], startTime, endTime)}})]]
GetDappStatsInWindow_allHours(d, dappIds, startTime, endTime) ==
    LET rows == {k \in DOMAIN d.stats : k[1] \in dappIds}
    IN [id \in {k[1] : k \in rows} |-> SumRows(d, {k \in rows : k[1] = id})]
\* getDappStatsInWindow: one row per application that has a row in the
\* window (GROUP BY dapp_id), as a function of dapp_id
GetDappStatsInWindow(d, dappIds, startTime, endTime) ==
    LET rows == WindowRows(d, dappIds, startTime, endTime)
    IN [id \in {k[1] : k \in rows} |-> SumRows(d, {k \in rows : k[1] = id})]

\* the loop body of processAddressTransactions for an accepted transaction
ApplyTransaction ==
    /\ ApiReady
    /\ \E k \in StoreKeys, from \in Senders :
         /\ HasBucket(db, k[1], k[2]) => db.stats[k].tx_count < MaxTxCount
         /\ db' = InsertHourlyUserOnce(
                     UpsertHourlyTxCount(db, k[1], k[2], 1), k[1], k[2], from)
    /\ UNCHANGED <<schedVars, apiVars, jobVars, syncVars, clientVars>>

\* fillEmptyHours after a sync that looked HoursBack hours back, or at the
\* current hour only
FillStore ==
    /\ ApiReady
    /\ \E dappId \in {k[1] : k \in StoreKeys},
          cutoff \in {CurrentHour - HoursBack * UnitsPerHour, CurrentHour} :
         db' = FillEmptyHours(db, dappId, cutoff, CurrentHour, <<>>, {})
    /\ UNCHANGED <<schedVars, apiVars, jobVars, syncVars, clientVars>>

\* refreshTouchedHours, one hour
RefreshHour ==
    /\ ApiReady
    /\ \E k \in StoreKeys : db' = RefreshHourlyUnique(db, k[1], k[2])
    /\ UNCHANGED <<schedVars, apiVars, jobVars, syncVars, clientVars>>

\* window bounds a query is made with, and the application lists
WindowTimes ==
    {CurrentHour - UnitsPerHour, CurrentHour, CurrentHour + UnitsPerHour}

DappIdLists == {{1}, {2}, {1, 2}}

CallGetDappStatsInWindow ==
    /\ ApiReady
    /\ \E dappIds \in DappIdLists, startTime \in WindowTimes,
          endTime \in WindowTimes :
         api' = [call |-> "getDappStatsInWindow",
                 args |-> <<dappIds, startTime, endTime>>,
                 result |-> GetDappStatsInWindow(db, dappIds, startTime, endTime)]
    /\ UNCHANGED <<db, schedVars, syncVars, jobVars, clientVars>>

\* --- percentage change ---------------------------------------------------
\* JavaScript numbers are computed here as exact fractions num / den.  The
\* arguments drawn below are ones for which the double-precision result of
\* each expression rounds and compares as the exact fraction does.
MaxCount == 6            \* counts drawn for current and previous go up to this

Counts == 0..MaxCount \cup {100, 150}

Digit == <<"0", "1", "2", "3", "4", "5", "6", "7", "8", "9">>

\* the decimal digits of a natural number, one character per element
RECURSIVE NumberToString(_)
NumberToString(n) ==
    IF n < 10 THEN <<Digit[n + 1]>>
    ELSE NumberToString(n \div 10) \o <<Digit[(n % 10) + 1]>>

\* (neg ? -1 : 1) * (num / den) with toFixed(2): the integer n for which
\* n / 100 is nearest the magnitude, the larger of two; a minus sign when
\* the number is negative
ToFixed2(neg, num, den) ==
    LET n == (2 * num * 100 + den) \div (2 * den)
    IN (IF neg THEN <<"-">> ELSE <<>>)
       \o NumberToString(n \div 100)
       \o <<".", Digit[((n \div 10) % 10) + 1], Digit[(n % 10) + 1]>>

StripPoint00_keep(formatted) == formatted
\* formatted.replace(/\.00$/, '')
StripPoint00(formatted) ==
    LET n == Len(formatted)
    IN IF n >= 3 /\ SubSeq(formatted, n - 2, n) = <<".", "0", "0">>
       THEN SubSeq(formatted, 1, n - 3)
       ELSE formatted

\* calculateChange of the stats route: a string, one character per element
CalculateChange(current, previous) ==
    IF previous = 0
    THEN IF current > 0 THEN <<"1", "0", "0", "%">> ELSE <<"0", "%">>
    ELSE IF current = 0
    THEN IF previous > 0 THEN <<"-", "1", "0", "0", "%">> ELSE <<"0", "%">>
    ELSE LET neg       == current < previous
             magnitude == IF neg THEN previous - current ELSE current - previous
             formatted == ToFixed2(neg, magnitude * 100, previous)
         IN StripPoint00(formatted) \o <<"%">>

\* calculatePercentChange of utils/format: a number
CalculatePercentChange(current, previous) ==
    IF previous = 0
    THEN [num |-> IF current = 0 THEN 0 ELSE 100, den |-> 1]
    ELSE [num |-> (current - previous) * 100, den |-> previous]

CallCalculateChange ==
    /\ ApiReady
    /\ \E current \in Counts, previous \in Counts :
         api' = [call |-> "calculateChange",
                 args |-> <<current, previous>>,
                 result |-> CalculateChange(current, previous)]
    /\ UNCHANGED <<db, schedVars, syncVars, jobVars, clientVars>>

CallCalculatePercentChange ==
    /\ ApiReady
    /\ \E current \in Counts, previous \in Counts :
         api' = [call |-> "calculatePercentChange",
                 args |-> <<current, previous>>,
                 result |-> CalculatePercentChange(current, previous)]
    /\ UNCHANGED <<db, schedVars, syncVars, jobVars, clientVars>>

\* --- trend of an hourly series -------------------------------------------
MaxSeriesLen == 6        \* points of a series

SeriesValues == {0, 10, 20, 21}

RECURSIVE SeriesOfLen(_)
SeriesOfLen(n) ==
    IF n = 0 THEN {<<>>}
    ELSE {<<v>> \o rest : v \in SeriesValues, rest \in SeriesOfLen(n - 1)}

\* the series of up to MaxSeriesLen points, and one that falls by a tenth
Series ==
    UNION {SeriesOfLen(n) : n \in 0..MaxSeriesLen} \cup {<<10, 11, 9, 10>>}

\* reduce((a, b) => a + b, 0)
RECURSIVE Sum(_)
Sum(data) == IF data = <<>> THEN 0 ELSE data[1] + Sum(Tail(data))

\* ((secondAvg - firstAvg) / firstAvg) * 100 for the means s1 / l1 and
\* s2 / l2 of non-negative counts; a division by zero gives Infinity, or NaN
\* when the dividend is zero too
Change(s1, l1, s2, l2) ==
    IF s1 = 0
    THEN IF s2 > 0 THEN [kind |-> "Infinity"] ELSE [kind |-> "NaN"]
    ELSE [kind |-> "finite",
          num |-> (s2 * l1 - s1 * l2) * 100, den |-> s1 * l2]

\* change > k, false for NaN
GreaterThan(change, k) ==
    CASE change.kind = "NaN"      -> FALSE
      [] change.kind = "Infinity" -> TRUE
      [] OTHER                    -> change.num > k * change.den

\* change < k, false for NaN
LessThan(change, k) ==
    change.kind = "finite" /\ change.num < k * change.den

\* Math.floor(data.length / 2)
HalfPoint(n) == n \div 2

\* getTrendFromSparkline
GetTrendFromSparkline(data) ==
    IF Len(data) < 2 THEN "stable"
    ELSE
    LET firstHalf  == SubSeq(data, 1, HalfPoint(Len(data)))
        secondHalf == SubSeq(data, HalfPoint(Len(data)) + 1, Len(data))
        change     == Change(Sum(firstHalf), Len(firstHalf),
                             Sum(secondHalf), Len(secondHalf))
    IN IF GreaterThan(change, 5) THEN "up"
       ELSE IF LessThan(change, -5) THEN "down"
       ELSE "stable"

CallGetTrendFromSparkline ==
    /\ ApiReady
    /\ \E data \in Series :
         api' = [call |-> "getTrendFromSparkline",
                 args |-> <<data>>,
                 result |-> GetTrendFromSparkline(data)]
    /\ UNCHANGED <<db, schedVars, syncVars, jobVars, clientVars>>

\* --- the stats route -----------------------------------------------------
\* names a request may carry: a slug, a name whose slugified form is a slug,
\* another slug, and a name of no application
RequestNames == {"x", "X", "y", "unknown-app"}

\* dappName.toLowerCase().replace(/\s+/g, '-') on those names
Slugify(dappName) == IF dappName = "X" THEN "x" ELSE dappName

\* dapps.title of a slug
TitleOf(slug) == IF slug = "x" THEN "Title X" ELSE "Title Y"

\* getDappBySlug: SELECT * FROM dapps WHERE slug = ? AND status = 1; the
\* rows found, none or one
GetDappBySlug(table, slug) ==
    IF slug \in table
      THEN <<[id |-> DappIdOf(slug), slug |-> slug, title |-> TitleOf(slug)]>>
      ELSE <<>>

\* for (const dappName of dapp_names) { try { getDapp(dappName), then
\* getDapp(slug) } catch { log } }: the applications pushed, from name i on;
\* a lookup of a name in `failing` throws
RECURSIVE ResolveFrom(_, _, _, _)
ResolveFrom(table, dapp_names, failing, i) ==
    IF i > Len(dapp_names) THEN <<>>
    ELSE LET first == GetDappBySlug(table, dapp_names[i])
             dapp  == IF first # <<>> THEN first
                      ELSE GetDappBySlug(table, Slugify(dapp_names[i]))
         IN (IF i \in failing THEN <<>> ELSE dapp)
            \o ResolveFrom(table, dapp_names, failing, i + 1)

NoValidDapps_never(dapps) == FALSE
\* if (dappIds.length === 0)
NoValidDapps(dapps) == Len(dapps) = 0

\* queries on dapp_stats_hourly a request makes before it answers 200
HourlyReads(include_sparklines) == IF include_sparklines THEN 9 ELSE 8

\* getDappStats of the route: the status and body of the response, and the
\* number of queries made on the hourly tables
GetDappStats(d, table, now, timeframe, dapp_names, include_sparklines, failing) ==
    IF Len(dapp_names) < 1
    THEN [status |-> 400, success |-> FALSE, data |-> <<>>, hourlyReads |-> 0]
    ELSE
    LET w     == CalculateWindowBounds(now, timeframe)
        dapps == ResolveFrom(table, dapp_names, failing, 1)
    IN
    IF NoValidDapps(dapps)
    THEN [status |-> 404, success |-> FALSE, data |-> <<>>, hourlyReads |-> 0]
    ELSE
    LET dappIds      == {dapps[i].id : i \in 1..Len(dapps)}
        t24h         == w.t0 - 24 * UnitsPerHour
        t24hPrev     == t24h - 24 * UnitsPerHour
        currentStats == GetDappStatsInWindow(d, dappIds, w.t1, w.t0)
        stats24h     == GetDappStatsInWindow(d, dappIds, t24h, w.t0)
        stats24hPrev == GetDappStatsInWindow(d, dappIds, t24hPrev, t24h)
        Find(stats, dappId) ==
            IF dappId \in DOMAIN stats THEN stats[dappId]
            ELSE [tx_count |-> 0, unique_users |-> 0]
    IN [status |-> 200, success |-> TRUE,
        data |-> [i \in 1..Len(dapps) |->
            [name         |-> dapps[i].title,
             users        |-> Find(currentStats, dapps[i].id).unique_users,
             transactions |-> Find(stats24h, dapps[i].id).tx_count,
             change_24h   |-> CalculateChange(
                                 Find(stats24h, dapps[i].id).tx_count,
                                 Find(stats24hPrev, dapps[i].id).tx_count)]],
        hourlyReads |-> HourlyReads(include_sparklines)]

\* the dapp_names of a request: none (refused by validation), one or two
DappNameLists ==
    {<<>>} \cup {<<a>> : a \in RequestNames}
           \cup {<<a, b>> : a \in RequestNames, b \in RequestNames}

CallGetDappStats ==
    /\ ApiReady
    /\ \E timeframe \in Timeframes, dapp_names \in DappNameLists,
          include_sparklines \in BOOLEAN :
         \E failing \in SUBSET (1..Len(dapp_names)) :
            api' = [call |-> "getDappStats",
                    args |-> <<timeframe, dapp_names, include_sparklines, failing>>,
                    result |-> GetDappStats(db, dappsTable, NowTime, timeframe,
                                  dapp_names, include_sparklines, failing)]
    /\ UNCHANGED <<db, schedVars, syncVars, jobVars, clientVars>>

\* an application's status flag is flipped between two requests
SetDappStatusBetweenRequests == ApiReady /\ SetDappStatus

\* --- failures of a stats request -----------------------------------------
\* NODE_ENV
NodeEnvs == {"development", "production", "test"}

\* error.message of what a query or a middleware may throw
ErrorMessages == {"connect ECONNREFUSED 10.0.0.5:3306",
                  "ER_NO_SUCH_TABLE: dapp_stats_hourly"}

\* the catch of getDappStats: message: error.message, whatever NODE_ENV is
RouteCatch(nodeEnv, message) ==
    [status |-> 500,
     body |-> [success |-> FALSE, error |-> "Internal server error",
               message |-> message]]

\* the global error handler of the server
GlobalErrorHandler(nodeEnv, message) ==
    [status |-> 500,
     body |-> [success |-> FALSE, error |-> "Internal server error",
               message |-> IF nodeEnv = "development" THEN message
                           ELSE "Something went wrong"]]

\* getDappStats with its try/catch: a timeframe outside the enum is refused
\* by the schema; with thrown = "none" every hourly query answers, otherwise
\* the first hourly query throws an Error of that message
HandleStatsRequest(d, table, nodeEnv, timeframe, dapp_names, failing, thrown) ==
    IF timeframe \notin Timeframes
    THEN [status |-> 400, body |-> [success |-> FALSE, data |-> <<>>]]
    ELSE
    LET r == GetDappStats(d, table, NowTime, timeframe, dapp_names, FALSE, failing)
    IN IF r.status = 200 /\ thrown # "none"
       THEN RouteCatch(nodeEnv, thrown)
       ELSE [status |-> r.status,
             body |-> [success |-> r.success, data |-> r.data]]

\* the database as a request finds it: the hourly tables, the active
\* applications, and the addresses linked to each application
Database(d, table, linked) == [db |-> d, dapps |-> table, linked |-> linked]

\* the queries of the name lookups, from name i on: getDappBySlug of the
\* name and, when that finds no row, of the slugified name
RECURSIVE LookupQueries(_, _, _)
LookupQueries(table, dapp_names, i) ==
    IF i > Len(dapp_names) THEN <<>>
    ELSE (IF GetDappBySlug(table, dapp_names[i]) # <<>>
            THEN <<"getDappBySlug">>
            ELSE <<"getDappBySlug", "getDappBySlug">>)
         \o LookupQueries(table, dapp_names, i + 1)

\* the queries getDappStats sends to the pool, in order: none for a request
\* the schema refuses, the lookups, and with an application found the window
\* sums; when a window query throws, the ones after it are not sent
QueriesOfRequest(table, timeframe, dapp_names, thrown) ==
    IF timeframe \notin Timeframes \/ Len(dapp_names) < 1 THEN <<>>
    ELSE LookupQueries(table, dapp_names, 1)
         \o (IF NoValidDapps(ResolveFrom(table, dapp_names, {}, 1)) THEN <<>>
             ELSE IF thrown # "none" THEN <<"getDappStatsInWindow">>
             ELSE [i \in 1..HourlyReads(FALSE) |-> "getDappStatsInWindow"])

ExecuteQuery_touchesLastSeen(database, query) ==
    IF query = "getDappBySlug"
      THEN [database EXCEPT !.db = UpsertHourlyTxCount(@, 1, CurrentHour, 0)]
      ELSE database
\* pool.execute of getDappBySlug, getDappStatsInWindow or getDappSparkline:
\* each is one SELECT, which returns rows and changes none
ExecuteQuery(database, query) == database

RECURSIVE ExecuteAll(_, _)
ExecuteAll(database, queries) ==
    IF queries = <<>> THEN database
    ELSE ExecuteAll(ExecuteQuery(database, Head(queries)), Tail(queries))

\* POST /api/dapps/stats
PostStats ==
    /\ ApiReady
    /\ \E nodeEnv \in NodeEnvs, timeframe \in Timeframes,
          dapp_names \in DappNameLists, thrown \in ErrorMessages \cup {"none"} :
            /\ api' = [call |-> "POST /api/dapps/stats",
                 args |-> <<nodeEnv, timeframe, dapp_names, thrown>>,
                 result |-> HandleStatsRequest(db, dappsTable, nodeEnv, timeframe,
                                               dapp_names, {}, thrown)]
            /\ LET after == ExecuteAll(Database(db, dappsTable, job.linked),
                                QueriesOfRequest(dappsTable, timeframe,
                                                 dapp_names, thrown))
               IN /\ db' = after.db
                  /\ dappsTable' = after.dapps
                  /\ job' = [job EXCEPT !.linked = after.linked]
    /\ UNCHANGED <<isRunning, cronJob, initialTimers, runs, skipped,
                   syncVars, clientVars>>

\* between two requests the ingest job applies an accepted transaction of
\* the current hour (the loop body of processAddressTransactions)
IngestBetweenRequests ==
    /\ ApiReady
    /\ \E dappId \in {k[1] : k \in StoreKeys}, from \in Senders :
         /\ HasBucket(db, dappId, CurrentHour)
               => db.stats[<<dappId, CurrentHour>>].tx_count < MaxTxCount
         /\ db' = InsertHourlyUserOnce(
                     UpsertHourlyTxCount(db, dappId, CurrentHour, 1),
                     dappId, CurrentHour, from)
    /\ UNCHANGED <<schedVars, apiVars, jobVars, syncVars, clientVars>>

\* the query string of a GET request: timeframe and dapp_names, each absent
\* (""), and a timeframe the schema does not know
QueryTimeframes == Timeframes \cup {"", "1Y"}
QueryNames      == RequestNames \cup {""}

\* GET /api/dapps/stats: getDappStatsGet answers 400 itself when a parameter
\* is missing, and otherwise hands body = {timeframe, dapp_names: [name]} to
\* getDappStats
GetStats ==
    /\ ApiReady
    /\ \E nodeEnv \in NodeEnvs, timeframe \in QueryTimeframes,
          dappName \in QueryNames, thrown \in ErrorMessages \cup {"none"} :
         LET missing == timeframe = "" \/ dappName = ""
             after   == IF missing THEN Database(db, dappsTable, job.linked)
                        ELSE ExecuteAll(Database(db, dappsTable, job.linked),
                                QueriesOfRequest(dappsTable, timeframe,
                                                 <<dappName>>, thrown))
         IN
         /\ api' = [call |-> "GET /api/dapps/stats",
                    args |-> <<nodeEnv, timeframe, <<dappName>>, thrown>>,
                    result |->
                       IF missing
                       THEN [status |-> 400,
                             body |-> [success |-> FALSE, data |-> <<>>]]
                       ELSE HandleStatsRequest(db, dappsTable, nodeEnv,
                                timeframe, <<dappName>>, {}, thrown)]
         /\ db' = after.db
         /\ dappsTable' = after.dapps
         /\ job' = [job EXCEPT !.linked = after.linked]
    /\ UNCHANGED <<isRunning, cronJob, initialTimers, runs, skipped,
                   syncVars, clientVars>>

\* a middleware ahead of the route throws (a body that does not parse): the
\* request is answered by the global error handler
MiddlewareThrows ==
    /\ ApiReady
    /\ \E nodeEnv \in NodeEnvs, thrown \in ErrorMessages :
         api' = [call |-> "global error handler",
                 args |-> <<nodeEnv, "24H", <<>>, thrown>>,
                 result |-> GlobalErrorHandler(nodeEnv, thrown)]
    /\ UNCHANGED <<db, schedVars, syncVars, jobVars, clientVars>>

\* ------------------------------------------------------------------------
\* DappRepository.processAddress and the address statements of queries.ts
\* ------------------------------------------------------------------------
MaxDiscoveries == 3      \* processAddress calls in a run of the model
chainId == 1             \* private chainId: number = 1

\* what getAddressesBySlug lists: a hash in some letter case, and the name of
\* the tag of tagType 'name' ("" when there is none)
AddressHashes == {"0xAB", "0xab", "0xCD"}
NameTags      == {"", "Router", "Vault"}
AddressItems  == [hash : AddressHashes, name : NameTags]

\* let label = `Address for dApp ${dappId}`; if (nameTag) label = nameTag.name
LabelOf(dappId, addressItem) ==
    IF addressItem.name # "" THEN addressItem.name
    ELSE IF dappId = 1 THEN "Address for dApp 1" ELSE "Address for dApp 2"

\* SELECT * FROM addresses WHERE chain_id = ? AND address_hash = ?, with
\* addressHash.toLowerCase(): the id of the first row, 0 for no row
GetAddressByHash(book, chain, addressHash) ==
    LET found == {i \in DOMAIN book.addresses :
                    /\ book.addresses[i].chain_id = chain
                    /\ book.addresses[i].address_hash = ToLowerCase(addressHash)}
    IN IF found = {} THEN 0 ELSE CHOOSE i \in found : \A j \in found : i <= j

\* INSERT INTO addresses (chain_id, address_hash, label, address_type):
\* the insertId; UNIQUE KEY uniq_addr_chain rejects a second row of the pair
CreateAddress(book, chain, addressHash, label, addressType) ==
    IF \E i \in DOMAIN book.addresses :
          /\ book.addresses[i].chain_id = chain
          /\ book.addresses[i].address_hash = ToLowerCase(addressHash)
      THEN [book |-> book, error |-> "ER_DUP_ENTRY", insertId |-> 0]
      ELSE [book |-> [book EXCEPT !.addresses = Append(@,
                        [chain_id |-> chain,
                         address_hash |-> ToLowerCase(addressHash),
                         label |-> label, address_type |-> addressType,
                         last_seen_at |-> NoTimestamp])],
            error |-> "none",
            insertId |-> Len(book.addresses) + 1]

UpdateAddressLastSeen_noop(book, addressId) == book
\* UPDATE addresses SET last_seen_at = CURRENT_TIMESTAMP WHERE id = ?
UpdateAddressLastSeen(book, addressId) ==
    [book EXCEPT !.addresses[addressId].last_seen_at = book.now]

\* updateAddressLabel(addressId, label): the new label is stored and, as on
\* every later discovery of an address, its last-seen time is refreshed
UpdateAddressLabel(book, addressId, label) ==
    [book EXCEPT !.addresses[addressId].label = label,
                 !.addresses[addressId].last_seen_at = book.now]

LinkDappAddress_plainInsert(book, dappId, addressId, role) ==
    IF <<dappId, addressId>> \in book.links
      THEN [book |-> book, error |-> "ER_DUP_ENTRY"]
      ELSE [book |-> [book EXCEPT !.links = @ \cup {<<dappId, addressId>>}],
            error |-> "none"]
\* INSERT IGNORE INTO dapp_addresses (dapp_id, address_id, role); the
\* primary key is (dapp_id, address_id)
LinkDappAddress(book, dappId, addressId, role) ==
    [book |-> [book EXCEPT !.links = @ \cup {<<dappId, addressId>>}],
     error |-> "none"]

\* processAddress(dappId, addressItem): the tables after it and the error it
\* throws, if any
ProcessAddress(book, dappId, addressItem) ==
    LET normalizedAddressHash == ToLowerCase(addressItem.hash)
        label           == LabelOf(dappId, addressItem)
        existingAddress == GetAddressByHash(book, chainId, normalizedAddressHash)
        created  == CreateAddress(book, chainId, normalizedAddressHash, label,
                                  "contract")
        addressId == IF existingAddress # 0 THEN existingAddress
                     ELSE created.insertId
        afterAddress ==
            IF existingAddress # 0
              THEN IF book.addresses[existingAddress].label # label
                     THEN UpdateAddressLabel(book, existingAddress, label)
                     ELSE UpdateAddressLastSeen(book, existingAddress)
              ELSE created.book
    IN IF existingAddress = 0 /\ created.error # "none"
         THEN [book |-> created.book, error |-> created.error]
         ELSE LinkDappAddress(afterAddress, dappId, addressId, "contract")

\* a later sync discovers an address: time has passed, and processAddress
\* runs for one item of getAddressesBySlug
CallProcessAddress ==
    /\ ApiReady
    /\ job.book.now < MaxDiscoveries
    /\ \E dappId \in {1, 2}, addressItem \in AddressItems :
         LET before == [job.book EXCEPT !.now = @ + 1]
             out    == ProcessAddress(before, dappId, addressItem)
         IN /\ job' = [job EXCEPT !.book = out.book]
            /\ api' = [call |-> "processAddress",
                       args |-> <<dappId, addressItem>>,
                       result |-> out.error]
    /\ UNCHANGED <<db, schedVars, syncVars, clientVars>>

\* ------------------------------------------------------------------------
\* A whole application sync as a function of what the source lists
\* ------------------------------------------------------------------------
\* accepted transactions: successful, with a sender, not older than the cutoff
AcceptedTransactions ==
    [timestamp : {Cutoff, NowTime}, from : Senders, status : {"ok"}]

\* what one address lists in a run: up to two accepted transactions
AcceptedStreams ==
    {<<>>} \cup {<<a>> : a \in AcceptedTransactions}
           \cup {<<a, b>> : a \in AcceptedTransactions, b \in AcceptedTransactions}

RECURSIVE ProcessAddressTransactions(_, _, _)
\* processAddressTransactions over a stream that ends normally: the loop body
\* for each transaction in the order listed
ProcessAddressTransactions(state, dappId, stream) ==
    IF stream = <<>> THEN state
    ELSE ProcessAddressTransactions(
            ProcessTransaction(state.db, state.result, dappId, Head(stream), "ok"),
            dappId, Tail(stream))

RECURSIVE ProcessAddresses(_, _, _)
\* for (const address of addresses) { processAddressTransactions; addressesProcessed++ }
ProcessAddresses(state, dappId, streams) ==
    IF streams = <<>> THEN state
    ELSE LET after == ProcessAddressTransactions(state, dappId, Head(streams)) IN
         ProcessAddresses(
            [after EXCEPT !.result.addressesProcessed = @ + 1],
            dappId, Tail(streams))

\* ingestDappTransactions: the address loop, fillEmptyHours, refreshTouchedHours
IngestDappTransactions(d, dappId, streams) ==
    LET processed == ProcessAddresses(
                        [db |-> d,
                         result |-> [addressesProcessed |-> 0,
                                     transactionsProcessed |-> 0,
                                     hoursTouched |-> <<>>]],
                        dappId, streams)
        filled == FillEmptyHours(processed.db, dappId, FloorToHourUTC(Cutoff),
                                 FloorToHourUTC(NowTime),
                                 processed.result.hoursTouched, {})
    IN [db |-> RefreshTouchedHours(filled, dappId, processed.result.hoursTouched),
        result |-> processed.result]

\* SUM(tx_count) over the whole table
TotalTxCount(d) == SumRows(d, DOMAIN d.stats).tx_count

\* a sync of application 1 whose two addresses list the given streams, while
\* the table holds at most MaxTxCount transactions
CallIngestDappTransactions ==
    /\ ApiReady
    /\ TotalTxCount(db) <= MaxTxCount
    /\ \E first \in AcceptedStreams, second \in AcceptedStreams :
         LET out == IngestDappTransactions(db, 1, <<first, second>>) IN
         /\ db' = out.db
         /\ api' = [call |-> "ingestDappTransactions",
                    args |-> <<db, <<first, second>>>>,
                    result |-> out]
    /\ UNCHANGED <<schedVars, syncVars, jobVars, clientVars>>

\* ------------------------------------------------------------------------
\* Specifications
\* ------------------------------------------------------------------------
SchedIdle ==
    /\ isRunning = FALSE /\ cronJob = FALSE /\ initialTimers = 0
    /\ runs = <<>> /\ skipped = 0 /\ dappsTable = {}

SyncIdle ==
    /\ sync = [NewSync(<<>>, 0, 0, FALSE) EXCEPT !.pc = "idle"]
    /\ iter = NewIter
    /\ req = NewReq

ApiIdle == api = [call |-> "none", args |-> <<>>, result |-> <<>>]

JobIdle ==
    job = [NewJob(<<>>, [s \in Slugs |-> {}]) EXCEPT !.pc = "idle"]

\* execute of application x at its step 5, with A1 and A2 linked
JobAtIngest ==
    job = [NewJob(<<"x">>, [s \in Slugs |-> IF s = "x" THEN Addresses ELSE {}])
             EXCEPT !.pc = "ingest", !.result.dappId = DappIdOf("x")]

ClientIdle ==
    /\ callers = [c \in Callers |-> IdleCaller]
    /\ queue = <<>>
    /\ lastCall = NoCall

SchedStart == SchedInit /\ db = EmptyDb /\ SyncIdle /\ JobIdle /\ ApiIdle /\ ClientIdle

SchedNext ==
    \/ Start
    \/ Stop
    \/ CronTick
    \/ InitialRun
    \/ TriggerIngestion
    \/ TriggerIngestionForDapps
    \/ SetDappStatus
    \/ \E i \in DOMAIN runs : CycleFetched(i)
    \/ \E i \in DOMAIN runs : CycleEnded(i)
    \/ \E i \in DOMAIN runs : ManualQueried(i)
    \/ \E i \in DOMAIN runs : ManualEnded(i)

SpecSched == SchedStart /\ [][SchedNext]_vars

StoreStart == SchedIdle /\ db = EmptyDb /\ SyncIdle /\ JobIdle /\ ApiIdle /\ ClientIdle

StoreNext == StoreUpsert \/ StoreInsertUser \/ StoreRefresh

SpecStore == StoreStart /\ [][StoreNext]_vars

\* a sync of <<A1, A2>> from an empty store
SyncStart ==
    /\ SchedIdle /\ ClientIdle /\ ApiIdle /\ JobAtIngest
    /\ sync = NewSync(<<"A1", "A2">>, MaxSrcPages, MaxItems, FALSE)
    /\ iter = NewIter
    /\ req = NewReq
    /\ db = EmptyDb

SyncNext ==
    \/ BeginAddress
    \/ LoopTest
    \/ Attempt
    \/ ResponseReturned
    \/ NextItem
    \/ PageDrained
    \/ FillHours
    \/ RefreshHours
    \/ JobIngested

SpecSync == SyncStart /\ [][SyncNext]_vars

\* the same sync where the source lists one page of at most two transactions
\* per address, and the run records what it accepted from each address
E2EStart ==
    /\ SchedIdle /\ ClientIdle /\ ApiIdle /\ JobAtIngest
    /\ sync = NewSync(<<"A1", "A2">>, MaxSrcPages, MaxItems, TRUE)
    /\ iter = NewIter
    /\ req = NewReq
    /\ db = EmptyDb

SpecE2E == E2EStart /\ [][SyncNext]_vars

\* the same sync against a source that has a next page after every page up
\* to one past maxPages, each page listing at most one transaction
PagesStart ==
    /\ SchedIdle /\ ClientIdle /\ ApiIdle /\ JobAtIngest
    /\ sync = NewSync(<<"A1">>, maxPages + 1, 1, FALSE)
    /\ iter = NewIter
    /\ req = NewReq
    /\ db = EmptyDb

\* every awaited step settles: a request is answered or times out, a
\* statement returns
SpecPages == PagesStart /\ [][SyncNext]_vars /\ WF_vars(SyncNext)

\* the same sync against a pool that may reject any statement of the run;
\* the source serves two pages of at most MaxFaultItems transactions per
\* address
FaultsStart ==
    /\ SchedIdle /\ ClientIdle /\ ApiIdle /\ JobAtIngest
    /\ sync = [NewSync(<<"A1", "A2">>, 2, MaxFaultItems, TRUE)
                 EXCEPT !.storeErrors = TRUE]
    /\ iter = NewIter
    /\ req = NewReq
    /\ db = EmptyDb

SpecFaults == FaultsStart /\ [][SyncNext]_vars

\* two syncs in a row of <<A1, A2>> over unchanged source data: one page of
\* at most MaxRerunItems transactions per address
RerunStart ==
    /\ SchedIdle /\ ClientIdle /\ ApiIdle /\ JobIdle
    /\ sync = [NewSync(<<"A1", "A2">>, 1, MaxRerunItems, FALSE)
                 EXCEPT !.replay = [phase |-> "record",
                                    todo  |-> <<<<>>, <<>>>>,
                                    first |-> EmptyDb]]
    /\ iter = NewIter
    /\ req = NewReq
    /\ db = EmptyDb

RerunNext ==
    \/ BeginAddress
    \/ LoopTest
    \/ Attempt
    \/ ResponseReturned
    \/ NextItem
    \/ PageDrained
    \/ FillHours
    \/ RefreshHours
    \/ RerunSync

SpecRerun == RerunStart /\ [][RerunNext]_vars

ClientStart == SchedIdle /\ db = EmptyDb /\ SyncIdle /\ JobIdle /\ ApiIdle /\ ClientIdle

\* executeMultiple over one or two applications; the database already links
\* A1 to some of them, and the source serves one page of at most one
\* transaction per address
JobConfigs == {<<"x">>, <<"x", "y">>, <<"y", "x">>}

JobStart ==
    /\ SchedIdle /\ SyncIdle /\ ClientIdle /\ ApiIdle
    /\ db = EmptyDb
    /\ \E configs \in JobConfigs, linked \in [Slugs -> {{}, {"A1"}}] :
         job = NewJob(configs, linked)

JobNext ==
    \/ JobGetOrCreateDapp
    \/ JobSyncDappAddresses
    \/ JobGetDappAddresses
    \/ SyncNext
    \/ DriverPush

SpecJob == JobStart /\ [][JobNext]_vars

\* every awaited step of a job settles: requests time out, queries return
SpecJobFair == SpecJob /\ WF_vars(JobNext)

\* calls of the pure functions of the statistics API
FormatStart ==
    /\ SchedIdle /\ SyncIdle /\ JobIdle /\ ClientIdle /\ ApiIdle
    /\ db = EmptyDb

FormatNext ==
    \/ CallCalculateWindowBounds
    \/ CallCalculateChange
    \/ CallCalculatePercentChange
    \/ CallGetTrendFromSparkline
    \/ ApiReturned

SpecFormat == FormatStart /\ [][FormatNext]_vars

\* window queries on a store that syncs fill
WindowStart ==
    /\ SchedIdle /\ SyncIdle /\ JobIdle /\ ClientIdle /\ ApiIdle
    /\ db = EmptyDb

WindowNext ==
    \/ ApplyTransaction
    \/ FillStore
    \/ RefreshHour
    \/ CallGetDappStatsInWindow
    \/ ApiReturned

SpecWindow == WindowStart /\ [][WindowNext]_vars

\* stats requests on a store that syncs fill and a table that changes
StatsStart ==
    /\ SchedIdle /\ SyncIdle /\ JobIdle /\ ClientIdle /\ ApiIdle
    /\ db = EmptyDb

StatsNext ==
    \/ ApplyTransaction
    \/ SetDappStatusBetweenRequests
    \/ CallGetDappStats
    \/ ApiReturned

SpecStats == StatsStart /\ [][StatsNext]_vars

\* requests to the server, answered or failing, on a table that changes
ServerStart ==
    /\ SchedIdle /\ SyncIdle /\ JobIdle /\ ClientIdle /\ ApiIdle
    /\ db = EmptyDb

ServerNext ==
    \/ SetDappStatusBetweenRequests
    \/ IngestBetweenRequests
    \/ PostStats
    \/ GetStats
    \/ MiddlewareThrows
    \/ ApiReturned

SpecServer == ServerStart /\ [][ServerNext]_vars

\* discoveries of addresses, one after the other
AddressesStart ==
    /\ SchedIdle /\ SyncIdle /\ JobIdle /\ ClientIdle /\ ApiIdle
    /\ db = EmptyDb

AddressesNext ==
    \/ CallProcessAddress
    \/ ApiReturned

SpecAddresses == AddressesStart /\ [][AddressesNext]_vars

\* syncs of one application, one after the other
OrderStart ==
    /\ SchedIdle /\ SyncIdle /\ JobIdle /\ ClientIdle /\ ApiIdle
    /\ db = EmptyDb

OrderNext ==
    \/ CallIngestDappTransactions
    \/ ApiReturned

SpecOrder == OrderStart /\ [][OrderNext]_vars

ClientNext ==
    \/ \E c \in Callers : Schedule(c)
    \/ LimiterStart
    \/ \E c \in Callers : ClientAttempt(c)
    \/ \E c \in Callers : RetrySend(c)

SpecClient == ClientStart /\ [][ClientNext]_vars

\* ------------------------------------------------------------------------
\* Properties of the scheduler (SpecSched)
\* ------------------------------------------------------------------------
\* scheduled cycles (begun by runScheduledIngestion) that have not ended
ActiveScheduled == {i \in DOMAIN runs : runs[i].kind = "scheduled" /\ runs[i].pc # "done"}

\* manual subset runs (begun by triggerIngestionForDapps) that have not ended
ActiveManual == {i \in DOMAIN runs : runs[i].kind = "manual" /\ runs[i].pc # "done"}

ScheduledStarted == Len(SelectSeq(runs, LAMBDA r : r.kind = "scheduled"))

\* C1: at most one cycle started through runScheduledIngestion is in progress
\* at any time; a step taken while the guard is set begins no scheduled cycle
\* (the tick is only counted as skipped), and a scheduled cycle begins only in
\* the step of the invocation itself, never later on behalf of a skipped tick.
C1_OneScheduledCycle ==
    /\ [](Cardinality(ActiveScheduled) <= 1)
    /\ [][isRunning => ScheduledStarted' = ScheduledStarted]_vars
    /\ [][ScheduledStarted' # ScheduledStarted =>
            /\ ScheduledStarted' = ScheduledStarted + 1
            /\ Invocations' = Invocations + 1
            /\ skipped' = skipped]_vars
    /\ [][skipped' # skipped =>
            /\ skipped' = skipped + 1
            /\ runs' = runs /\ isRunning' = isRunning]_vars

\* a tick has been skipped and a single cycle is in progress
C1_Witness ==
    /\ isRunning
    /\ skipped > 0
    /\ Cardinality(ActiveScheduled) = 1

\* C2: a manual subset run (triggerIngestionForDapps) and a scheduled cycle
\* are never in progress together.
C2_ManualSharesGuard ==
    ~(\E i \in ActiveManual, j \in ActiveScheduled :
        runs[i].pc = "ingest" /\ runs[j].pc = "ingest")

\* C3: the guard is set only while a scheduled cycle is in progress, so once
\* a cycle has ended, whatever its outcome, the guard is false; and an
\* invocation is skipped only while a cycle is in progress, so the first tick
\* after the end of a cycle starts a new one.
C3_GuardReleased ==
    /\ [](isRunning => ActiveScheduled # {})
    /\ [][skipped' # skipped => ActiveScheduled # {}]_vars
    /\ [][(ActiveScheduled # {} /\ ActiveScheduled' = {}) => ~isRunning']_vars

\* a cycle ended in the catch block and a later cycle has been started
C3_Witness ==
    \E i, j \in DOMAIN runs :
        /\ i < j
        /\ runs[i].kind = "scheduled" /\ runs[i].outcome = "throw"
        /\ runs[j].kind = "scheduled"

\* ------------------------------------------------------------------------
\* Properties of one application sync (SpecE2E, SpecSync)
\* ------------------------------------------------------------------------
\* C4: from an empty store, when the sync of the application accepted exactly
\* one transaction from A1 and exactly one from A2, both of hour H and both
\* sent by the same user, the bucket (application, H) reads tx_count = 2 and
\* unique_users = 1 once the sync has finished.
C4_EndToEnd ==
    \A H \in {FloorToHourUTC(t) : t \in TxTimes}, u \in Senders :
        ( /\ sync.pc = "done"
          /\ \A i \in DOMAIN sync.accepted :
               sync.accepted[i] = [seen |-> "one", tsHour |-> H, from |-> u] )
        => /\ HasBucket(db, sync.dappId, H)
           /\ db.stats[<<sync.dappId, H>>] = [tx_count |-> 2, unique_users |-> 1]

\* the sync has finished having accepted one transaction of the current hour
\* from U1 at each of the two addresses
C4_Witness ==
    /\ sync.pc = "done"
    /\ Len(sync.addresses) = 2
    /\ \A i \in DOMAIN sync.accepted :
         sync.accepted[i] = [seen |-> "one", tsHour |-> FloorToHourUTC(NowTime),
                             from |-> "U1"]

\* the tx_count column of every bucket
TxCounts(d) == [k \in DOMAIN d.stats |-> d.stats[k].tx_count]

\* C6: once the generator has met a transaction older than the cutoff it
\* yields no further transaction of that address.
C6_StopsAtCutoff ==
    [][~(sync.sawOld /\ sync.pc = "items" /\ sync'.pc = "items")]_vars

\* C7: when the page request of an address has failed with HTTP 422, the
\* stream ends normally and the address counts as processed.
C7_PaginationErrorEndsStream ==
    ( /\ sync.pc = "address"
      /\ req.result = "error"
      /\ req.log # <<>>
      /\ req.log[Len(req.log)] = 422 )
    => sync.outcome[sync.idx - 1] = "ok"

\* C9: the page request whose attempts were answered 503, 503, 200 resolves
\* with the response of the third attempt, which is handed to the generator;
\* a page's transactions become available only in the step that resolves the
\* request; no attempt touches the store or the result; and every change of
\* the store during the address loop consumes exactly one delivered
\* transaction and counts it once.
C9_RetriedCallAppliedOnce ==
    /\ [](req.log = <<503, 503, 200>> =>
            sync.pc = "response" /\ req.result = "ok")
    /\ [][iter'.pageLeft > iter.pageLeft =>
            sync.pc = "request" /\ sync'.pc = "response"]_vars
    /\ [][sync.pc = "request" =>
            db' = db /\ sync'.result = sync.result]_vars
    /\ [][(db' # db /\ sync.pc \notin {"fill", "refresh"}) =>
            /\ sync.pc = "items"
            /\ iter'.pageLeft = iter.pageLeft - 1
            /\ sync'.result.transactionsProcessed =
                 sync.result.transactionsProcessed + 1]_vars

\* the third attempt has succeeded after two 503s and delivered a page that
\* holds transactions
C9_Witness ==
    /\ req.log = <<503, 503, 200>>
    /\ sync.pc = "response"
    /\ iter.pageLeft > 0

\* ------------------------------------------------------------------------
\* Properties of the aggregation primitives (SpecStore)
\* ------------------------------------------------------------------------
\* C5: in every store, for every bucket key and users u, v that differ at most
\* in letter case, inserting v after u leaves the user rows as they were after
\* the first insert; refreshing twice gives what refreshing once gives; and
\* neither insertHourlyUserOnce nor refreshHourlyUnique changes any tx_count.
C5_Idempotence ==
    \A k \in StoreKeys :
        /\ \A u, v \in Senders :
             ToLowerCase(u) = ToLowerCase(v) =>
               LET once  == InsertHourlyUserOnce(db, k[1], k[2], u)
                   twice == InsertHourlyUserOnce(once, k[1], k[2], v)
               IN /\ twice.users = once.users
                  /\ Cardinality(HourlyUsers(twice, k[1], k[2])) =
                       Cardinality(HourlyUsers(once, k[1], k[2]))
                  /\ TxCounts(once) = TxCounts(db)
                  /\ TxCounts(twice) = TxCounts(db)
        /\ LET once  == RefreshHourlyUnique(db, k[1], k[2])
               twice == RefreshHourlyUnique(once, k[1], k[2])
           IN /\ twice = once
              /\ TxCounts(once) = TxCounts(db)
              /\ once.users = db.users

\* a bucket with transactions whose user u1 has been inserted and counted,
\* while another bucket's counter is stale
C5_Witness ==
    \E k \in StoreKeys :
        /\ HasBucket(db, k[1], k[2])
        /\ db.stats[k].tx_count > 0
        /\ <<k[1], k[2], "u1">> \in db.users
        /\ db.stats[k].unique_users = Cardinality(HourlyUsers(db, k[1], k[2]))
        /\ \E j \in StoreKeys \ {k} :
             /\ HasBucket(db, j[1], j[2])
             /\ db.stats[j].unique_users # Cardinality(HourlyUsers(db, j[1], j[2]))

\* ------------------------------------------------------------------------
\* Properties of the shared client (SpecClient)
\* ------------------------------------------------------------------------
\* the attempts of a call: only a retryable answer is followed by another
\* attempt, and there are at most MaxRetries + 1 of them
BoundedAttempts(log) ==
    /\ Len(log) <= MaxRetries + 1
    /\ \A n \in 1..(Len(log) - 1) : Retryable(log[n])

\* C8: a call is attempted at most 4 times; a call that failed on a 5xx or
\* 429 answer was attempted exactly 4 times and fails with that last answer;
\* a call that failed on any other status or on no response made no attempt
\* after that answer, so when it is the first answer the call was attempted
\* exactly once.
C8_RetryBound ==
    /\ BoundedAttempts(lastCall.log)
    /\ \A c \in Callers :
         /\ BoundedAttempts(callers[c].log)
         /\ callers[c].retryCount <= MaxRetries
    /\ lastCall.result = "error" =>
         LET last == lastCall.log[Len(lastCall.log)] IN
         /\ last # 200
         /\ Retryable(last) => Len(lastCall.log) = MaxRetries + 1
         /\ ~Retryable(lastCall.log[1]) => Len(lastCall.log) = 1

\* a call has failed after four retryable answers
C8_Witness ==
    /\ lastCall.result = "error"
    /\ Len(lastCall.log) = MaxRetries + 1
    /\ Retryable(lastCall.log[MaxRetries + 1])

\* C10: at most one request to the source is in flight, whatever the
\* interleaving of the callers and their retries.
C10_OneInFlight ==
    Cardinality(InFlight) <= 1

\* one caller's retried request is in flight while other callers wait in the
\* limiter's queue
C10_Witness ==
    /\ \E c \in InFlight : callers[c].retryCount > 0
    /\ Len(queue) >= 2

StreamedOk == {i \in DOMAIN sync.outcome : sync.outcome[i] = "ok"}

\* addresses whose stream ended in an error
StreamedFailed == {i \in DOMAIN sync.outcome : sync.outcome[i] = "failed"}

\* C12: a failed address never stops the sync: after an address has failed
\* the address loop is at a later address or past the loop, never aborted;
\* the fill and refresh phases are entered only when every address has been
\* streamed; the only step that ends the sync is the refresh phase; and the
\* job result drawn from a finished sync has success = true and
\* addressesProcessed equal to the number of addresses streamed without
\* error, also when every address failed.
C12_AddressErrorIsolated ==
    /\ [](\A i \in StreamedFailed :
            /\ sync.idx > i
            /\ sync.pc \in {"address", "loop", "request", "response", "items",
                            "fill", "refresh", "done"})
    /\ [](sync.pc \in {"fill", "refresh", "done"} =>
            StreamedOk \cup StreamedFailed = DOMAIN sync.addresses)
    /\ [](sync.result.addressesProcessed = Cardinality(StreamedOk))
    /\ [][(sync.pc # "done" /\ sync'.pc = "done") => sync.pc = "refresh"]_vars
    /\ []((job.pc = "finished" /\ Len(sync.addresses) > 0) =>
            /\ sync.pc = "done"
            /\ job.result.success
            /\ job.result.error = "none"
            /\ job.result.addressesProcessed = Cardinality(StreamedOk))

\* the job has finished although the streams of both addresses failed
C12_Witness ==
    /\ job.pc = "finished"
    /\ job.result.success
    /\ Len(sync.addresses) = 2
    /\ StreamedFailed = DOMAIN sync.addresses
    /\ job.result.addressesProcessed = 0

\* ------------------------------------------------------------------------
\* Properties of the ingestion jobs (SpecJob)
\* ------------------------------------------------------------------------
\* the positions of execute before ingestDappTransactions is called
Resolving == {"getOrCreate", "syncAddresses", "getAddresses"}

\* C13: execute leaves the address synchronisation towards the ingestion
\* only when the source has answered and an address is linked to the
\* application; when the request has failed after its retries, or the source
\* lists no address, execute finishes with success = false, an error message
\* and zero counts, also when the database still links addresses from an
\* earlier sync. A failed result is produced only by the steps before the
\* ingestion, and none of these steps changes the store.
C13_FatalOutcome ==
    /\ [][(job.pc = "syncAddresses" /\ job'.pc # "syncAddresses") =>
            \/ /\ job'.pc = "getAddresses"
               /\ req'.result = "ok"
               /\ job'.linked[job.configs[job.idx]] # {}
            \/ /\ job'.pc = "finished"
               /\ ~job'.result.success
               /\ job'.result.error # "none"]_vars
    /\ [][(job.pc = "syncAddresses" /\ req'.result = "error") =>
            job'.pc = "finished" /\ job'.result.error = "source"]_vars
    /\ []((job.pc = "finished" /\ ~job.result.success) =>
            /\ job.result.error # "none"
            /\ job.result.addressesProcessed = 0
            /\ job.result.transactionsProcessed = 0
            /\ job.result.hoursTouched = 0)
    /\ [][(job'.pc = "finished" /\ job.pc # "finished" /\ ~job'.result.success) =>
            job.pc \in Resolving]_vars
    /\ [][job.pc \in Resolving => db' = db]_vars

\* the source stayed unavailable through all retries for an application
\* whose addresses the database already links, and execute has ended Fatal
C13_Witness ==
    /\ job.pc = "finished"
    /\ ~job.result.success
    /\ job.result.error = "source"
    /\ Len(req.log) = MaxRetries + 1
    /\ job.linked[job.configs[job.idx]] # {}

\* C14: executeMultiple holds one result per application handled so far, in
\* input order (a result carries the id of its application, or 0 when the
\* application failed before its id was known); results are only appended,
\* one per finished execute; after a failed application the driver goes on
\* to the next one; and the driver returns with exactly one result per input
\* application.
C14_OneResultPerApplication ==
    /\ [](/\ Len(job.results) = job.idx - 1
          /\ Len(job.results) <= Len(job.configs)
          /\ \A i \in DOMAIN job.results :
               /\ job.results[i].dappId \in {0, DappIdOf(job.configs[i])}
               /\ job.results[i].success =>
                    job.results[i].dappId = DappIdOf(job.configs[i]))
    /\ [][job'.results # job.results =>
            /\ job.pc = "finished"
            /\ job'.results = Append(job.results, job.result)]_vars
    /\ [][(job.pc = "finished" /\ job'.pc # "finished"
             /\ job.idx < Len(job.configs)) =>
            job'.pc = "getOrCreate" /\ job'.idx = job.idx + 1]_vars
    /\ [](job.pc = "returned" => Len(job.results) = Len(job.configs))
    /\ <>(job.pc = "returned")

\* the driver has returned two results, the first failed and the second not
C14_Witness ==
    /\ job.pc = "returned"
    /\ Len(job.results) = 2
    /\ ~job.results[1].success
    /\ job.results[2].success
    /\ job.results[2].transactionsProcessed > 0

HoursAround(w) ==
    {w.tPrev1 + n * UnitsPerHour :
        n \in -1..((w.t0 - w.tPrev1) \div UnitsPerHour + 1)}

\* C16: calculateWindowBounds returns t0 = now floored to the hour,
\* t1 = t0 - duration and tPrev1 = t1 - duration for a duration of 24, 168 or
\* 720 hours; of the windows [t1, t0) and [tPrev1, t1) every hour bucket from
\* tPrev1 up to t0 exclusive lies in exactly one, the bucket at t1 lies in the
\* current window only, and the bucket at t0 and the buckets outside lie in
\* neither.
C16_WindowBounds ==
    api.call = "calculateWindowBounds" =>
        LET now      == api.args[1]
            w        == api.result
            duration == (CASE api.args[2] = "24H" -> 24
                           [] api.args[2] = "7D"  -> 168
                           [] api.args[2] = "30D" -> 720) * UnitsPerHour
        IN
        /\ w.t0 <= now /\ now < w.t0 + UnitsPerHour /\ w.t0 % UnitsPerHour = 0
        /\ w.t1 = w.t0 - duration
        /\ w.tPrev1 = w.t1 - duration
        /\ w.t0 - w.t1 = w.t1 - w.tPrev1
        /\ \A h \in HoursAround(w) :
             LET current  == InWindow(h, w.t1, w.t0)
                 previous == InWindow(h, w.tPrev1, w.t1)
             IN /\ ~(current /\ previous)
                /\ (current \/ previous) <=> (w.tPrev1 <= h /\ h < w.t0)
                /\ h = w.t1 => current
                /\ h = w.t0 => ~current

\* the bounds of a 7D window have been computed at a time inside an hour
C16_Witness ==
    /\ api.call = "calculateWindowBounds"
    /\ api.args[2] = "7D"
    /\ api.args[1] # api.result.t0
    /\ api.result.t0 - api.result.tPrev1 = 2 * 168 * UnitsPerHour

\* the number a decimal string denotes, in hundredths; the string has no
\* fraction or a fraction of two digits
DigitValue(ch) == CHOOSE d \in 0..9 : Digit[d + 1] = ch

RECURSIVE ValueOfDigits(_)
ValueOfDigits(s) ==
    IF s = <<>> THEN 0
    ELSE ValueOfDigits(SubSeq(s, 1, Len(s) - 1)) * 10 + DigitValue(s[Len(s)])

IsDigits(s) ==
    Len(s) > 0 /\ \A i \in 1..Len(s) : \E d \in 0..9 : s[i] = Digit[d + 1]

Unsigned(s) == IF s # <<>> /\ s[1] = "-" THEN Tail(s) ELSE s

HasFraction(s) == Len(s) >= 3 /\ s[Len(s) - 2] = "."

IsDecimal(s) ==
    LET u == Unsigned(s)
    IN IF HasFraction(u)
       THEN IsDigits(SubSeq(u, 1, Len(u) - 3))
            /\ IsDigits(SubSeq(u, Len(u) - 1, Len(u)))
       ELSE IsDigits(u)

Hundredths(s) ==
    LET u == Unsigned(s)
        v == IF HasFraction(u)
             THEN ValueOfDigits(SubSeq(u, 1, Len(u) - 3)) * 100
                  + ValueOfDigits(SubSeq(u, Len(u) - 1, Len(u)))
             ELSE ValueOfDigits(u) * 100
    IN IF s[1] = "-" THEN -v ELSE v

Distance(a, b) == IF a >= b THEN a - b ELSE b - a

\* C17: for non-negative integers current and previous, calculateChange gives
\* "100%" for previous = 0 < current, "0%" for previous = 0 = current, "-100%"
\* for current = 0 < previous, and otherwise the percentage
\* (current - previous) / previous * 100 as a decimal of no or two fraction
\* digits, never ending in .00, within half a hundredth of the exact value,
\* followed by "%"; (150, 100) gives "50%" and (100, 150) gives "-33.33%";
\* calculatePercentChange gives the same percentage as a number.
C17_PercentageChange ==
    /\ api.call = "calculateChange" =>
        LET current  == api.args[1]
            previous == api.args[2]
            r        == api.result
            text     == SubSeq(r, 1, Len(r) - 1)
        IN
        /\ previous = 0 /\ current > 0 => r = <<"1", "0", "0", "%">>
        /\ previous = 0 /\ current = 0 => r = <<"0", "%">>
        /\ current = 0 /\ previous > 0 => r = <<"-", "1", "0", "0", "%">>
        /\ current > 0 /\ previous > 0 =>
             /\ r[Len(r)] = "%"
             /\ IsDecimal(text)
             /\ ~(HasFraction(text)
                  /\ SubSeq(text, Len(text) - 1, Len(text)) = <<"0", "0">>)
             /\ 2 * Distance(Hundredths(text) * previous,
                             (current - previous) * 10000) <= previous
        /\ current = 0 /\ previous = 0 => r = <<"0", "%">>
        /\ current = 5 /\ previous = 0 => r = <<"1", "0", "0", "%">>
        /\ current = 0 /\ previous = 5 => r = <<"-", "1", "0", "0", "%">>
        /\ current = 150 /\ previous = 100 => r = <<"5", "0", "%">>
        /\ current = 100 /\ previous = 150 =>
             r = <<"-", "3", "3", ".", "3", "3", "%">>
    /\ api.call = "calculatePercentChange" =>
        LET current  == api.args[1]
            previous == api.args[2]
            r        == api.result
        IN
        /\ previous = 0 /\ current > 0 => r.num = 100 * r.den
        /\ previous = 0 /\ current = 0 => r.num = 0
        /\ current = 0 /\ previous > 0 => r.num = -100 * r.den
        /\ previous > 0 => r.num * previous = (current - previous) * 100 * r.den

\* calculateChange has rendered a fall by a third and a rise by a half
C17_Witness ==
    /\ api.call = "calculateChange"
    /\ \/ api.args = <<100, 150>>
          /\ api.result = <<"-", "3", "3", ".", "3", "3", "%">>
       \/ api.args = <<150, 100>> /\ api.result = <<"5", "0", "%">>

\* C18: getTrendFromSparkline gives 'stable' for a series of fewer than two
\* points; otherwise, with the series split into its first floor(n/2) points
\* and the rest, 'up' when the second mean exceeds the first by more than 5%
\* of the first, 'down' when it is lower by more than 5% of the first, else
\* 'stable'; [10,10,10,20,20,20] is 'up', [20,20,20,10,10,10] is 'down' and
\* [10,11,9,10] is 'stable'.
C18_TrendClassification ==
    api.call = "getTrendFromSparkline" =>
        LET data == api.args[1]
            n    == Len(data)
            s1   == Sum(SubSeq(data, 1, n \div 2))
            l1   == n \div 2
            s2   == Sum(SubSeq(data, n \div 2 + 1, n))
            l2   == n - n \div 2
            \* second mean - first mean > 5% of first mean, in 20 * l1 * l2
            higher == 20 * (s2 * l1 - s1 * l2) > s1 * l2
            lower  == 20 * (s1 * l2 - s2 * l1) > s1 * l2
        IN
        /\ n < 2 => api.result = "stable"
        /\ n >= 2 => api.result = IF higher THEN "up"
                                  ELSE IF lower THEN "down" ELSE "stable"
        /\ data = <<10, 10, 10, 20, 20, 20>> => api.result = "up"
        /\ data = <<20, 20, 20, 10, 10, 10>> => api.result = "down"
        /\ data = <<10, 11, 9, 10>> => api.result = "stable"

\* ------------------------------------------------------------------------
\* Properties of window queries (SpecWindow)
\* ------------------------------------------------------------------------
\* the hours a bucket can have
BucketHours == {k[2] : k \in StoreKeys}

\* what the bucket of an application and hour holds, zeros when there is none
BucketOf(d, dappId, tsHour) ==
    IF HasBucket(d, dappId, tsHour) THEN d.stats[<<dappId, tsHour>>]
    ELSE [tx_count |-> 0, unique_users |-> 0]

\* the sums of an application over a set of hours, hour by hour
RECURSIVE SumHours(_, _, _)
SumHours(d, dappId, hours) ==
    IF hours = {} THEN [tx_count |-> 0, unique_users |-> 0]
    ELSE LET h    == CHOOSE x \in hours : TRUE
             rest == SumHours(d, dappId, hours \ {h})
         IN [tx_count     |-> BucketOf(d, dappId, h).tx_count + rest.tx_count,
             unique_users |-> BucketOf(d, dappId, h).unique_users
                              + rest.unique_users]

\* the sums a result holds for an application, zeros when it has no row
SumsOf(result, dappId) ==
    IF dappId \in DOMAIN result THEN result[dappId]
    ELSE [tx_count |-> 0, unique_users |-> 0]

\* C19: getDappStatsInWindow returns, for each application asked for, the sum
\* of tx_count and of unique_users over exactly the buckets with
\* start <= hour < end, and rows of no other application; a bucket without
\* recorded transactions holds 0 in both columns, and filling empty hours
\* with zero rows, for any application and cutoff, changes no window sum.
C19_WindowSums ==
    api.call = "getDappStatsInWindow" =>
        LET dappIds   == api.args[1]
            startTime == api.args[2]
            endTime   == api.args[3]
            inside    == {h \in BucketHours : startTime <= h /\ h < endTime}
        IN
        /\ DOMAIN api.result \subseteq dappIds
        /\ \A id \in dappIds :
             SumsOf(api.result, id) = SumHours(db, id, inside)
        /\ \A id \in dappIds, h \in inside :
             BucketOf(db, id, h).tx_count = 0 =>
                BucketOf(db, id, h).unique_users = 0
        /\ \A filled \in {k[1] : k \in StoreKeys},
              cutoff \in {CurrentHour - UnitsPerHour, CurrentHour} :
             LET after == GetDappStatsInWindow(
                             FillEmptyHours(db, filled, cutoff, CurrentHour, <<>>, {}),
                             dappIds, startTime, endTime)
             IN \A id \in dappIds : SumsOf(after, id) = SumsOf(api.result, id)

\* a window over two hours has been summed for an application that has
\* transactions in one hour, inside the window, and a zero row in the other
C19_Witness ==
    /\ api.call = "getDappStatsInWindow"
    /\ 1 \in api.args[1]
    /\ api.args[2] = CurrentHour - UnitsPerHour
    /\ api.args[3] = CurrentHour + UnitsPerHour
    /\ HasBucket(db, 1, CurrentHour) /\ db.stats[<<1, CurrentHour>>].tx_count = 0
    /\ HasBucket(db, 1, CurrentHour - UnitsPerHour)
    /\ db.stats[<<1, CurrentHour - UnitsPerHour>>].unique_users > 0
    /\ api.result[1].tx_count > 0
    /\ api.result[1].unique_users > 0

\* ------------------------------------------------------------------------
\* Properties of the stats route (SpecStats)
\* ------------------------------------------------------------------------
\* the positions of the request whose name resolves to an active application
ResolvedPositions(dapp_names, failing) ==
    {i \in 1..Len(dapp_names) :
        /\ i \notin failing
        /\ \E slug \in dappsTable :
             slug = dapp_names[i] \/ slug = Slugify(dapp_names[i])}

\* the application a resolving name stands for
ResolvedSlug(dappName) ==
    IF dappName \in dappsTable THEN dappName ELSE Slugify(dappName)

\* the j-th smallest element of a set of positions
NthOf(positions, j) ==
    CHOOSE i \in positions : Cardinality({k \in positions : k < i}) = j - 1

\* C20: a stats request of one or more names none of which resolves to an
\* active application is answered 404 with success = false and makes no query
\* on the hourly tables; a request with at least one resolving name is
\* answered 200 with success = true and exactly one data entry per resolving
\* name, in the order of the request, the other names leaving no entry.
C20_StatsRequestResolution ==
    (api.call = "getDappStats" /\ Len(api.args[2]) >= 1) =>
        LET dapp_names == api.args[2]
            resolved   == ResolvedPositions(dapp_names, api.args[4])
            r          == api.result
        IN
        /\ resolved = {} =>
             /\ r.status = 404 /\ r.success = FALSE
             /\ r.hourlyReads = 0
             /\ r.data = <<>>
        /\ resolved # {} =>
             /\ r.status = 200 /\ r.success = TRUE
             /\ Len(r.data) = Cardinality(resolved)
             /\ \A j \in 1..Len(r.data) :
                  r.data[j].name =
                      TitleOf(ResolvedSlug(dapp_names[NthOf(resolved, j)]))

\* a request naming an unknown application and then an active one, by a name
\* that resolves through its slugified form, has been answered with one entry
C20_Witness ==
    /\ api.call = "getDappStats"
    /\ api.args[2] = <<"unknown-app", "X">>
    /\ api.result.status = 200
    /\ Len(api.result.data) = 1
    /\ api.result.data[1].name = "Title X"
    /\ api.result.data[1].transactions > 0

\* ------------------------------------------------------------------------
\* Properties of the server (SpecServer)
\* ------------------------------------------------------------------------
\* C21: in production mode a 500 response of the stats API carries no
\* internal error detail: had the request failed with any other internal
\* error message, the response would have been the same.
C21_NoInternalErrorDetail ==
    (/\ api.call \in {"POST /api/dapps/stats", "global error handler"}
     /\ api.args[1] = "production"
     /\ api.result.status = 500) =>
        /\ api.result.body.message \notin ErrorMessages
        /\ \A other \in ErrorMessages :
             IF api.call = "POST /api/dapps/stats"
             THEN HandleStatsRequest(db, dappsTable, api.args[1], api.args[2],
                                     api.args[3], {}, other) = api.result
             ELSE GlobalErrorHandler(api.args[1], other) = api.result

\* a step in which a request to the stats API is answered
StatsRequestAnswered ==
    /\ api.call = "none"
    /\ api'.call \in {"POST /api/dapps/stats", "GET /api/dapps/stats"}

\* C22: a request to the stats API, by POST or GET, valid or invalid,
\* answered or failing, changes no aggregated state: the hourly buckets, the
\* hourly user sets, the applications and the links of addresses to
\* applications are the same after the request as before it.
C22_AnalyticsReadOnly ==
    [][StatsRequestAnswered =>
          /\ db' = db
          /\ dappsTable' = dappsTable
          /\ job'.linked = job.linked]_vars

\* a GET request has been answered 200 from a store that holds transactions
C22_Witness ==
    /\ api.call = "GET /api/dapps/stats"
    /\ api.result.status = 200
    /\ db.stats # <<>>
    /\ db.users # {}
    /\ dappsTable # {}

\* the application sync has ended in Success and none of its refresh calls
\* threw
SyncSucceeded ==
    /\ sync.pc = "done"
    /\ job.pc = "finished"
    /\ job.result.success

\* C23: when an application sync has ended in Success and no refresh call
\* of it failed, every hourly bucket of the application to which the run
\* applied a transaction has unique_users equal to the number of distinct
\* lower-cased addresses in the hourly user set of that hour, also when the
\* hour was touched only by an address whose stream failed afterwards.
C23_UniqueUsersRefreshed ==
    (SyncSucceeded /\ ~sync.refreshFailed) =>
        \A k \in DOMAIN db.stats :
            (k[1] = sync.dappId /\ db.stats[k].tx_count > 0) =>
                /\ db.stats[k].unique_users
                      = Cardinality(HourlyUsers(db, k[1], k[2]))
                /\ \A r \in HourlyUsers(db, k[1], k[2]) : r[3] = ToLowerCase(r[3])

\* the run applied one transaction, from the first address, whose stream
\* then failed; the second address listed nothing; the hour's bucket counts
\* one user
C23_Witness ==
    /\ SyncSucceeded /\ ~sync.refreshFailed
    /\ sync.outcome = <<"failed", "ok">>
    /\ sync.accepted[1].seen = "one"
    /\ sync.accepted[2].seen = "none"
    /\ sync.result.transactionsProcessed = 1
    /\ \E k \in DOMAIN db.stats :
         /\ k = <<sync.dappId, sync.accepted[1].tsHour>>
         /\ db.stats[k].unique_users = 1
         /\ HourlyUsers(db, k[1], k[2])
               = {<<k[1], k[2], ToLowerCase(sync.accepted[1].from)>>}
         /\ sync.accepted[1].from # ToLowerCase(sync.accepted[1].from)

\* C24: within one application sync refreshHourlyUnique is called only
\* after the last address has been drained, and then exactly once for every
\* distinct hour the run touched, however many accepted transactions fell
\* into that hour.
C24_RefreshOncePerHour ==
    /\ sync.pc \in {"address", "loop", "request", "response", "items", "fill",
                    "refresh"}
          => sync.refreshCalls = <<>>
    /\ sync.pc = "done" =>
          /\ DOMAIN sync.refreshCalls = DOMAIN sync.result.hoursTouched
          /\ \A h \in DOMAIN sync.refreshCalls : sync.refreshCalls[h] = 1

\* the hours into which the run, started on an empty store, applied a
\* transaction
HoursApplied ==
    {k[2] : k \in {x \in DOMAIN db.stats :
                      x[1] = sync.dappId /\ db.stats[x].tx_count > 0}}

\* C25: the hoursTouched count of the result record of a sync is the number
\* of distinct UTC hours into which the run applied at least one accepted
\* transaction; two accepted transactions of one hour count as one hour.
C25_HoursTouchedCount ==
    (job.pc = "finished" /\ job.result.success) =>
        job.result.hoursTouched = Cardinality(HoursApplied)

\* this step applied both effects of one transaction to bucket k: its
\* tx_count is one higher, a row of that hour is in the user set, and no
\* other bucket or row has changed
BothEffectsApplied(k) ==
    /\ k \in DOMAIN db'.stats
    /\ db'.stats[k].tx_count
          = (IF k \in DOMAIN db.stats THEN db.stats[k].tx_count ELSE 0) + 1
    /\ \A j \in DOMAIN db.stats \ {k} :
          j \in DOMAIN db'.stats /\ db'.stats[j] = db.stats[j]
    /\ \E r \in db'.users :
          r[1] = k[1] /\ r[2] = k[2] /\ db'.users = db.users \cup {r}

\* C26: no transaction is left half-applied. Every step that handles one
\* yielded transaction, whatever the pool answers, either applies both of its
\* effects (+1 on the tx_count of its hour and its sender in the user set of
\* that hour) and counts it in transactionsProcessed, or applies neither and
\* does not count it.
C26_NoHalfAppliedTransaction ==
    [][(sync.pc = "items" /\ iter.pageLeft > 0) =>
          \/ /\ db' = db
             /\ sync'.result.transactionsProcessed
                   = sync.result.transactionsProcessed
          \/ /\ \E k \in DOMAIN db'.stats : BothEffectsApplied(k)
             /\ sync'.result.transactionsProcessed
                   = sync.result.transactionsProcessed + 1]_vars

\* the orders of a stream of at most two transactions
StreamOrders(stream) ==
    IF Len(stream) = 2 THEN {stream, <<stream[2], stream[1]>>} ELSE {stream}

\* the same transactions, with the two addresses in either order and each
\* address's transactions in any order
Rearrangements(streams) ==
    UNION { {<<a, b>>, <<b, a>>} :
              a \in StreamOrders(streams[1]), b \in StreamOrders(streams[2]) }

\* the same transactions listed the other way round: one address lists all
\* of them, or they are dealt to the two addresses alternately
Regrouped(streams) ==
    LET all == streams[1] \o streams[2] IN
    {<<all, <<>>>>,
     <<[i \in 1..((Len(all) + 1) \div 2) |-> all[2 * i - 1]],
       [i \in 1..(Len(all) \div 2) |-> all[2 * i]]>>}

\* C27: for a fixed multiset of accepted transactions of one application,
\* the store after the sync (tx_count and unique_users of every bucket and
\* every hourly user set) is the same whatever the order of the addresses
\* and whatever the order of each address's transactions.
C27_OrderIndependence ==
    api.call = "ingestDappTransactions" =>
        \A streams \in Rearrangements(api.args[2]) \cup Regrouped(api.args[2]) :
            IngestDappTransactions(api.args[1], 1, streams).db = api.result.db

\* a sync on a store that already has a bucket, where each address lists two
\* transactions of different senders, both addresses reach into one hour,
\* and the orders differ
C27_Witness ==
    /\ api.call = "ingestDappTransactions"
    /\ api.args[1] # EmptyDb
    /\ Len(api.args[2][1]) = 2 /\ Len(api.args[2][2]) = 2
    /\ api.args[2][1][1].from # api.args[2][1][2].from
    /\ api.args[2][1][1].timestamp # api.args[2][1][2].timestamp
    /\ api.args[2][2][1] # api.args[2][2][2]
    /\ api.args[2][1] # api.args[2][2]
    /\ Cardinality(Rearrangements(api.args[2])) = 8
    /\ \E k \in DOMAIN db.stats :
         db.stats[k].tx_count >= 3 /\ db.stats[k].unique_users >= 2

\* C28: iterateAddressTransactions terminates whatever the source does,
\* also when every page carries a next-page cursor: the stream of every
\* address ends, no stream issues more than maxPages (10) page requests, and
\* a stream stopped by that limit ends without error.
C28_PaginationTerminates ==
    /\ [](iter.pageCount <= maxPages)
    /\ <>(\A i \in DOMAIN sync.outcome : sync.outcome[i] # "none")
    /\ [][(sync.pc = "loop" /\ iter.hasMore /\ iter.pageCount = maxPages)
            => sync'.outcome[sync.idx] = "ok"]_vars

\* the first address's stream has ended without error after maxPages page
\* requests, the last page still carrying a next-page cursor
C28_Witness ==
    /\ sync.pc = "address" /\ sync.idx = 2
    /\ sync.outcome[1] = "ok"
    /\ iter.pageCount = maxPages
    /\ iter.hasMore /\ iter.nextPageParams

\* C29: once the generator has met a transaction older than the cutoff it
\* issues no further page request for that address; the older record ends
\* the pagination, not only the yielding.
C29_NoPageRequestAfterCutoff ==
    [][(sync.sawOld /\ sync.pc = "loop") => sync'.pc # "request"]_vars

\* C30: within one executeMultiple call no two applications are synced at
\* the same time: execute() of a config is called only when the results of
\* all configs before it have been pushed; and within one application no
\* two address streams are open at the same time: the stream of an address
\* is opened only when the stream of every address before it has ended or
\* failed.
C30_StrictlySequential ==
    /\ Cardinality(job.active) <= 1
    /\ \A i \in job.active : Len(job.results) = i - 1
    /\ Cardinality(sync.open) <= 1
    /\ \A i \in sync.open :
          /\ \A j \in 1..(i - 1) : sync.outcome[j] # "none"
          /\ \A j \in i..Len(sync.addresses) : sync.outcome[j] = "none"

\* the second application of the call is reading a page of its second
\* address, after the stream of its first address failed and after the
\* first application's result was pushed
C30_Witness ==
    /\ Len(job.configs) = 2
    /\ job.active = {2}
    /\ Len(job.results) = 1
    /\ sync.open = {2}
    /\ sync.pc = "items"
    /\ sync.outcome[1] = "failed"

\* C31: a scheduler cycle syncs exactly the applications that are active in
\* the dapps table when the cycle reads it, in the table's priority and id
\* order, and no hard-coded application; when the table has no active
\* application or cannot be read, the cycle syncs nothing.
C31_CycleSyncsActiveDapps ==
    [][\A i \in DOMAIN runs :
          (runs[i].kind = "scheduled" /\ runs[i].pc = "fetch"
              /\ runs'[i].pc # "fetch") =>
             IF runs'[i].pc = "ingest"
               THEN /\ runs'[i].dapps = ActiveRows(dappsTable)
                    /\ runs'[i].dapps # <<>>
               ELSE runs'[i].dapps = <<>>]_vars

\* the id of the row of the address table that holds addressItem's hash in
\* any letter case, 0 if none
KnownAs(book, addressItem) ==
    LET rows == {i \in DOMAIN book.addresses :
                   ToLowerCase(book.addresses[i].address_hash)
                      = ToLowerCase(addressItem.hash)}
    IN IF rows = {} THEN 0 ELSE CHOOSE i \in rows : TRUE

\* C32: address records stay unique and links idempotent under repeated
\* discovery: no two records share (network, lower-cased hash), every stored
\* hash is lower case; discovering a known address again, in any letter
\* case, adds no record; linking an (application, address) pair that is
\* already linked changes no link and raises no error.
C32_AddressesUniqueLinksIdempotent ==
    /\ [](\A i, j \in DOMAIN job.book.addresses :
             /\ job.book.addresses[i].address_hash
                   = ToLowerCase(job.book.addresses[i].address_hash)
             /\ (/\ job.book.addresses[i].chain_id = job.book.addresses[j].chain_id
                 /\ job.book.addresses[i].address_hash
                       = job.book.addresses[j].address_hash) => i = j)
    /\ [][(api.call = "none" /\ api'.call = "processAddress") =>
            LET dappId == api'.args[1]
                known  == KnownAs(job.book, api'.args[2])
            IN /\ known # 0 =>
                     Len(job'.book.addresses) = Len(job.book.addresses)
               /\ (known # 0 /\ <<dappId, known>> \in job.book.links) =>
                     /\ job'.book.links = job.book.links
                     /\ api'.result = "none"
               /\ <<dappId, KnownAs(job'.book, api'.args[2])>> \in job'.book.links
          ]_vars

\* an address first listed as 0xab has been discovered again as 0xAB by the
\* same application: one record, one link, no error
C32_Witness ==
    /\ api.call = "processAddress"
    /\ api.args[2].hash = "0xAB"
    /\ api.result = "none"
    /\ job.book.now = 2
    /\ Len(job.book.addresses) = 1
    /\ job.book.addresses[1].address_hash = "0xab"
    /\ job.book.links = {<<api.args[1], 1>>}

C34_TxCountMonotone ==
    [][\A k \in DOMAIN db.stats :
          /\ k \in DOMAIN db'.stats
          /\ db'.stats[k].tx_count >= db.stats[k].tx_count]_vars

\* the current hour of application 1 holds two transactions of one sender,
\* counted by a refresh, beside an earlier hour that a zero-fill created
C34_Witness ==
    /\ HasBucket(db, 1, CurrentHour)
    /\ db.stats[<<1, CurrentHour>>] = [tx_count |-> 2, unique_users |-> 1]
    /\ HasBucket(db, 1, CurrentHour - UnitsPerHour)
    /\ db.stats[<<1, CurrentHour - UnitsPerHour>>].tx_count = 0

\* C35: a refreshHourlyUnique call that fails for one touched hour does
\* not abort the batch: every touched hour none of whose calls failed is
\* refreshed to the number of its distinct users, an hour all of whose
\* calls failed keeps the unique_users it had, no other bucket changes, and
\* the sync still ends with success = true.
C35_RefreshFailureIsolated ==
    /\ [][(sync.pc = "refresh" /\ sync'.pc = "done") =>
            \A k \in DOMAIN db.stats :
               LET calls  == sync.result.hoursTouched
                   thrown == sync'.refreshThrown
               IN /\ k \in DOMAIN db'.stats
                  /\ db'.stats[k].tx_count = db.stats[k].tx_count
                  /\ IF k[1] = sync.dappId /\ k[2] \in DOMAIN calls
                       THEN /\ thrown[k[2]] = 0 =>
                                 db'.stats[k].unique_users
                                    = Cardinality(HourlyUsers(db', k[1], k[2]))
                            /\ thrown[k[2]] = calls[k[2]] =>
                                 db'.stats[k].unique_users = db.stats[k].unique_users
                       ELSE db'.stats[k] = db.stats[k]
          ]_vars
    /\ []((job.pc = "finished" /\ sync.refreshFailed) => job.result.success)

\* the run touched two hours; the refresh of the earlier one threw and the
\* later one was refreshed all the same, and the sync ended in Success
C35_Witness ==
    /\ SyncSucceeded
    /\ sync.refreshFailed
    /\ \E h1, h2 \in DOMAIN sync.refreshThrown :
         /\ h1 < h2
         /\ sync.refreshThrown[h1] = sync.result.hoursTouched[h1]
         /\ sync.refreshThrown[h2] = 0
         /\ db.stats[<<sync.dappId, h1>>].unique_users = 0
         /\ db.stats[<<sync.dappId, h2>>].unique_users = 1

\* the UTC hours from the floored cutoff up to and including the current hour
SeriesHours ==
    {h \in FloorToHourUTC(Cutoff)..CurrentHour : h = FloorToHourUTC(h)}

\* C36: after a sync that ended in Success with no store write error the
\* application has a bucket for every UTC hour from the floored cutoff up
\* to and including the current hour, and the zero-fill step leaves tx_count
\* and unique_users of every bucket that existed before it unchanged.
C36_GapFreeSeries ==
    /\ [](SyncSucceeded => \A h \in SeriesHours : HasBucket(db, sync.dappId, h))
    /\ [][(sync.pc = "fill" /\ sync'.pc = "refresh") =>
            \A k \in DOMAIN db.stats :
               k \in DOMAIN db'.stats /\ db'.stats[k] = db.stats[k]]_vars

\* the run applied transactions to the current hour only; the hour of the
\* cutoff was created by the zero-fill
C36_Witness ==
    /\ SyncSucceeded
    /\ Cardinality(SeriesHours) > 1
    /\ DOMAIN sync.result.hoursTouched = {CurrentHour}
    /\ db.stats[<<sync.dappId, CurrentHour>>].tx_count > 0
    /\ db.stats[<<sync.dappId, FloorToHourUTC(Cutoff)>>].tx_count = 0

\* C37: in every state of the store every row of the hourly user set
\* belongs to an existing bucket, and for every bucket the number of
\* distinct users of its hour, and with it unique_users, is at most its
\* tx_count, whichever statements of the run the pool rejected.
C37_UsersAtMostTxCount ==
    /\ \A r \in db.users : HasBucket(db, r[1], r[2])
    /\ \A k \in DOMAIN db.stats :
          /\ Cardinality(HourlyUsers(db, k[1], k[2])) <= db.stats[k].tx_count
          /\ db.stats[k].unique_users <= db.stats[k].tx_count

\* a finished run after which an hour counts two transactions of one sender
\* and a refreshed unique_users of 1
C37_Witness ==
    /\ SyncSucceeded
    /\ \E k \in DOMAIN db.stats :
         /\ db.stats[k].tx_count = 2
         /\ Cardinality(HourlyUsers(db, k[1], k[2])) = 1
         /\ db.stats[k].unique_users = 1

\* the rows of the hourly user set of an application inside a window
UserRowsInWindow(d, dappId, startTime, endTime) ==
    {r \in d.users : r[1] = dappId /\ InWindow(r[2], startTime, endTime)}

\* C38: the unique-users figure a window query reports for an application
\* is the sum of unique_users over its hourly buckets in the window: when
\* every bucket of the window is refreshed it equals the number of (hour,
\* user) rows of the window, so a user active in k hours counts k times.
C38_WindowUsersSummedPerHour ==
    api.call = "getDappStatsInWindow" =>
       LET startTime == api.args[2]
           endTime   == api.args[3]
       IN \A id \in DOMAIN api.result :
            LET rows == {k \in DOMAIN db.stats :
                           k[1] = id /\ InWindow(k[2], startTime, endTime)}
            IN (\A k \in rows : db.stats[k].unique_users
                                   = Cardinality(HourlyUsers(db, k[1], k[2])))
                 => api.result[id].unique_users
                       = Cardinality(UserRowsInWindow(db, id, startTime, endTime))

\* one user was active in both hours of the window of application 1 and
\* nobody else was: the window reports 2 users
C38_Witness ==
    /\ api.call = "getDappStatsInWindow"
    /\ api.args[2] = CurrentHour - UnitsPerHour
    /\ api.args[3] = CurrentHour + UnitsPerHour
    /\ 1 \in DOMAIN api.result
    /\ api.result[1].unique_users = 2
    /\ Cardinality({r[3] : r \in UserRowsInWindow(db, 1, api.args[2], api.args[3])}) = 1
    /\ db.stats[<<1, CurrentHour>>].unique_users = 1
    /\ db.stats[<<1, CurrentHour - UnitsPerHour>>].unique_users = 1

\* C39: once stop() has returned and until start() is called again, the
\* scheduler starts no ingestion cycle: the cron callback does not run, and
\* the delayed initial run armed by start() does not begin a cycle either.
\* (A cycle begun by a callback is a new scheduled run appended while a
\* pending timer is consumed or the cron job is armed; with the cron job
\* gone only the timer can do it.)
C39_NoCycleAfterStop ==
    [][~cronJob =>
         ~(/\ initialTimers' < initialTimers
           /\ Len(runs') > Len(runs)
           /\ runs'[Len(runs')].kind = "scheduled")]_vars
====
